---------------------------- MODULE Spec2Model ----------------------------
(***************************************************************************)
(* A model of uredis: the cluster router (RedisClusterClient), the single *)
(* connection (RedisClient) and the sentinel pool (RedisSentinelPool).    *)
(*                                                                         *)
(* Ten specifications share the module:                                    *)
(*   Spec          the cluster router: connect(), discovery, the per-node  *)
(*                 pool, command() with MOVED/ASK handling;                *)
(*   SpecConnect   concurrent callers of the router's connect();           *)
(*   SpecPool      the per-node pool under fair scheduling;                *)
(*   SpecClient    one RedisClient used by several tasks;                  *)
(*   SpecCancel    the same, with commands cancelled while suspended;      *)
(*   SpecAuth      the same, with every configuration and AUTH reply;      *)
(*   SpecRoute     the router in front of a store without cluster support, *)
(*                 of failing seeds, and of a cluster whose first seed is  *)
(*                 a replica;                                              *)
(*   SpecSentinel  one RedisSentinelPool used by several tasks;            *)
(*   SpecSlot      the slot function applied to a set of keys;             *)
(*   SpecResolve   resolve_master_from_sentinel on lists of sentinels.     *)
(* Each specification leaves the variables of the others at their initial  *)
(* values.                                                                 *)
(***************************************************************************)
EXTENDS Integers, Sequences, FiniteSets, TLC

(***************************************************************************)
(* Bounds of the model.                                                    *)
(***************************************************************************)
\* number of concurrent tasks calling RedisClusterClient::command
NumTasks == 2
\* cfg_.max_connections_per_node of the modelled router
MaxConnectionsPerNode == 1
\* cfg_.max_redirections of the modelled router
MaxRedirections == 2
\* number of concurrent tasks calling RedisClusterClient::connect
NumCallers == 3
\* number of calls each task makes on the RedisClient
CallsPerTask == 2
\* length of the generated keys the slot function is applied to
MaxKeyLen == 4
\* number of range entries in a generated reply to CLUSTER SLOTS
MaxRanges == 2
\* length of the list of sentinels
MaxSentinels == 2

Tasks == 1..NumTasks

(***************************************************************************)
(* Program constants.                                                      *)
(***************************************************************************)
NumSlots == 16384
CrcPoly == 4129
CrcTopBit == 32768
CrcWidth == 65536

(***************************************************************************)
(* Keys are byte strings.  "foo" = <<102,111,111>>, '{' = 123, '}' = 125.  *)
(***************************************************************************)
KeyFoo == <<102, 111, 111>>
KeyEmpty == << >>
Keys == {KeyFoo}
\* the args of a command: none, or one routing key
ArgLists == {<< >>} \cup {<<k>> : k \in Keys}

LBrace == 123
RBrace == 125

\* std::string_view::find(c, from): least index >= from holding c, 0 if none
\* (indices are 1-based here; 0 plays npos)
Find(key, c, from) ==
    LET hits == {i \in from..Len(key) : key[i] = c}
    IN  IF hits = {} THEN 0 ELSE CHOOSE i \in hits : \A j \in hits : i <= j

TagMayBeEmpty(key) ==
    LET l == Find(key, LBrace, 1)
    IN  IF l = 0 THEN key
        ELSE LET r == Find(key, RBrace, l + 1)
             IN  IF r = 0 THEN key
                 ELSE SubSeq(key, l + 1, r - 1)

extract_hash_tag(key) ==
    LET l == Find(key, LBrace, 1)
    IN  IF l = 0 THEN key
        ELSE LET r == Find(key, RBrace, l + 1)
             IN  IF r = 0 \/ r = l + 1 THEN key
                 ELSE SubSeq(key, l + 1, r - 1)

RECURSIVE BitXor(_, _)
BitXor(a, b) ==
    IF a = 0 THEN b
    ELSE IF b = 0 THEN a
    ELSE ((a + b) % 2) + 2 * BitXor(a \div 2, b \div 2)

RECURSIVE CrcShift(_, _)
CrcShift(crc, i) ==
    IF i = 0 THEN crc
    ELSE CrcShift(IF crc >= CrcTopBit
                  THEN BitXor((crc * 2) % CrcWidth, CrcPoly)
                  ELSE (crc * 2) % CrcWidth,
                  i - 1)

RECURSIVE Crc16(_, _)
Crc16(crc, key) ==
    IF key = << >> THEN crc
    ELSE Crc16(CrcShift(BitXor(crc, Head(key) * 256), 8), Tail(key))

calc_slot(key) == IF key = << >> THEN 0 ELSE Crc16(0, key) % NumSlots

\* the slot node_index_for_key_nolock computes for a non-empty key
KeySlot(key) ==
    LET tag == extract_hash_tag(key)
    IN  calc_slot(IF tag = << >> THEN key ELSE tag)

FooSlot == KeySlot(KeyFoo)
\* the slots of the model's keys, computed once
KeySlots == [k \in Keys |-> KeySlot(k)]

(***************************************************************************)
(* The keys the slot function is applied to: every string of at most       *)
(* MaxKeyLen bytes over '{', '}' and 'a', and the named keys "foo", "tag",  *)
(* "{tag}key", "a{}b" and "{}{a}".                                         *)
(***************************************************************************)
KeyTag == <<116, 97, 103>>
KeyTagged == <<123, 116, 97, 103, 125, 107, 101, 121>>
KeyEmptyTag == <<97, 123, 125, 98>>
KeyTwoTags == <<123, 125, 123, 97, 125>>
KeyBytes == {LBrace, RBrace, 97}
SlotKeys ==
    UNION {[1..n -> KeyBytes] : n \in 0..MaxKeyLen}
      \cup {KeyFoo, KeyTag, KeyTagged, KeyEmptyTag, KeyTwoTags}

\* one call of the slot function: before the call, and after it
NoCall == [pc |-> "idle", key |-> << >>, slot |-> -1]
SlotCall(key) == [pc |-> "call", key |-> key, slot |-> -1]

(***************************************************************************)
(* The slot table is modelled on the slots the model's keys and            *)
(* redirections can name; every other entry of slot_to_node_ behaves the   *)
(* same way.                                                               *)
(***************************************************************************)
Slots == {0, FooSlot}

(***************************************************************************)
(* Endpoints (host:port) and the configured seeds.                         *)
(***************************************************************************)
Endpoints == {"A", "B"}
Seeds == <<"A", "B">>

(***************************************************************************)
(* Results: a value, or an error with a category and a message.            *)
(* A ServerReply message is the text of the store's error, held as its     *)
(* verb, the number of tokens that follow, the slot token and the target.  *)
(***************************************************************************)
Ok == [cat |-> "Ok", msg |-> "ok"]
Val(v) == [cat |-> "Value", msg |-> v]
IoErr(m) == [cat |-> "Io", msg |-> m]
ProtoErr(m) == [cat |-> "Protocol", msg |-> m]
ServerErr(m) == [cat |-> "ServerReply", msg |-> m]
NoResp == [cat |-> "None", msg |-> "none"]

IsError(r) == r.cat \in {"Io", "Protocol", "ServerReply"}

RedirMsg(verb, slot, ep) == [verb |-> verb, ntok |-> 2, slot |-> slot, target |-> ep]
PlainMsg(verb) == [verb |-> verb, ntok |-> 0, slot |-> 0, target |-> "none"]

ClusterDisabledMsg == PlainMsg("ERR This instance has cluster support disabled")
OtherErrMsg == PlainMsg("ERR other")
\* "MOVED 12182": the host:port token is missing
TruncatedMoved == [verb |-> "MOVED", ntok |-> 1, slot |-> 12182, target |-> "none"]

is_cluster_disabled_error(e) ==
    e.cat = "ServerReply" /\ e.msg = ClusterDisabledMsg

NoRedir == [type |-> "None", slot |-> -1, ep |-> "none"]

\* parse_redirection: the head token must be MOVED or ASK and two more tokens
\* (slot, host:port) must follow
parse_redirection(msg) ==
    IF msg.verb \notin {"MOVED", "ASK"} THEN NoRedir
    ELSE IF msg.ntok < 2 THEN NoRedir
    ELSE [type |-> IF msg.verb = "MOVED" THEN "Moved" ELSE "Ask",
          slot |-> msg.slot, ep |-> msg.target]

(***************************************************************************)
(* State.                                                                  *)
(***************************************************************************)
VARIABLES
    \* ---- RedisClusterClient ----
    nodes,            \* nodes_: the Node list, in creation order
    slot_to_node,     \* slot_to_node_ (0-based node index, -1 = unmapped)
    standalone_mode,  \* standalone_mode_
    init_started,     \* init_started_
    init_finished,    \* init_finished_
    init_result,      \* init_result_
    init_event,       \* init_event_ (manual reset): TRUE once set
    mutex,            \* mutex_: the task whose guard holds it, 0 = free
    discovery_runs,   \* history: number of calls of initial_discovery
    tk,               \* per task: position in command() and its locals
    env,              \* the environment of the run: the calls the tasks make
                      \* and the replies the store may give (never changes)
    \* ---- one RedisClient ----
    cli,              \* connected_, closing_, in_flight_, socket_, op_mutex_,
                      \* parser_, and the TCP connection behind socket_
    ck,               \* per task: position in connect() / command()
    \* ---- one RedisSentinelPool ----
    sp,               \* mutex_, connected_, pool_
    st,               \* per task: position in connect() / command()
    \* ---- the static functions of RedisClusterClient ----
    hs,               \* one call of the slot function: its key and result
    \* ---- resolve_master_from_sentinel ----
    rs                \* one call: its config, its position in the loop over
                      \* the sentinels, its result

clusterVars == <<nodes, slot_to_node, standalone_mode, init_started,
                 init_finished, init_result, init_event, mutex, discovery_runs,
                 tk, env>>
clientVars == <<cli, ck>>
sentinelVars == <<sp, st>>
pureVars == <<hs, rs>>

vars == <<clusterVars, clientVars, sentinelVars, pureVars>>

(***************************************************************************)
(* Nodes.  A pooled client is "up" (connected, not closing, not in flight) *)
(* or "down" (hard-closed).  main is the state of main_client: "none",     *)
(* "up" or "down".                                                         *)
(***************************************************************************)
NoClient == "null"

connected(c) == c = "up"
is_idle(c) == c = "up"

\* asked is history: the task whose ASKING is the last command written on
\* the connection of main_client, 0 if the last command is another one.
\* ids names the RedisClient objects in idle, in the order of the queue.
NewNode(ep) ==
    [ep |-> ep, main |-> "none", idle |-> << >>, live |-> 0, sem |-> 0, waiters |-> 0,
     asked |-> 0, ids |-> << >>]

\* 0-based index of the Node with this endpoint, -1 if there is none
FindNode(ns, ep) ==
    LET hits == {i \in 1..Len(ns) : ns[i].ep = ep}
    IN  IF hits = {} THEN -1 ELSE (CHOOSE i \in hits : \A j \in hits : i <= j) - 1

NodeAt(idx) == nodes[idx + 1]

\* a section that appends without looking the endpoint up
AlwaysAppends(ns, ep) == Append(ns, NewNode(ep))

\* the first critical section of get_or_create_main_client_for_node
EnsureNode(ns, ep) ==
    IF FindNode(ns, ep) >= 0 THEN ns ELSE Append(ns, NewNode(ep))

SetMain(ns, ep, m) ==
    [i \in 1..Len(ns) |->
        IF ns[i].ep = ep THEN [ns[i] EXCEPT !.main = m, !.asked = 0] ELSE ns[i]]

\* a command of task t (ASKING), or of no task (any other command), has been
\* written on the connection of the main client of ep
SetAsked(ns, ep, t) ==
    [i \in 1..Len(ns) |-> IF ns[i].ep = ep THEN [ns[i] EXCEPT !.asked = t] ELSE ns[i]]

MainOf(ns, ep) == ns[FindNode(ns, ep) + 1].main

(***************************************************************************)
(* Tasks.                                                                  *)
(***************************************************************************)
InitTask ==
    [pc |-> "idle", op |-> "none", args |-> << >>, attempt |-> 0, node |-> -1, client |-> NoClient,
     \* the RedisClient object `client` points to, 0 if none
     cid |-> 0,
     cur_live |-> 0, resp |-> NoResp, redir |-> NoRedir, seed |-> 0,
     init |-> NoResp, result |-> NoResp,
     ret |-> "none",
     \* history of this command() call: times the command was sent, MOVED
     \* replies to pooled attempts, the client that gave the reply in resp
     \* ("pool" or "ask"), whether this call's MOVED write is the latest
     \* write of that entry of slot_to_node_, and slot_to_node_[FooSlot]
     \* when routing began
     sent |-> 0, moved |-> 0, via |-> "none", applied |-> FALSE,
     tbl0 |-> -1]

ClusterStart ==
    /\ nodes = << >>
    /\ slot_to_node = [s \in Slots |-> -1]
    /\ standalone_mode = FALSE
    /\ init_started = FALSE
    /\ init_finished = FALSE
    /\ init_result = NoResp
    /\ init_event = FALSE
    /\ mutex = 0
    /\ discovery_runs = 0

Put(t, r) == tk' = [tk EXCEPT ![t] = r]

\* a guard that is still alive at the next suspension point
GuardHeld(t) ==
    /\ mutex = 0
    /\ mutex' = t

\* auto guard = co_await mutex_.lock() in a block of its own: the task takes
\* mutex_ when it is free, and the guard unlocks at the closing brace, which
\* comes before the next co_await of the caller
ScopedGuard(t) ==
    /\ mutex = 0
    /\ mutex' = 0

(***************************************************************************)
(* RedisClusterClient::connect and initial_discovery.                      *)
(***************************************************************************)
\* what command() does with the result of its first connect()
IgnoresInitError(r, res) ==
    IF r.op = "connect"
    THEN [r EXCEPT !.pc = "done", !.init = res, !.result = res]
    ELSE [r EXCEPT !.pc = "lookup", !.init = res, !.attempt = 0,
                   !.tbl0 = slot_to_node[FooSlot]]
AfterConnect(r, res) ==
    IF r.op = "connect" \/ IsError(res)
    THEN [r EXCEPT !.pc = "done", !.init = res, !.result = res]
    ELSE [r EXCEPT !.pc = "lookup", !.init = res, !.attempt = 0,
                   !.tbl0 = slot_to_node[FooSlot]]

\* a caller arrives: connect(), or command(cmd, args) where args[0]
\* (args[1] here) is the routing key
CmdStart(t) ==
    /\ tk[t].pc = "idle"
    /\ \/ /\ "connect" \in env.api
          /\ Put(t, [tk[t] EXCEPT !.pc = "cn_fast", !.op = "connect"])
       \/ /\ "command" \in env.api
          /\ \E a \in env.args :
                Put(t, [tk[t] EXCEPT !.pc = "cn_fast", !.op = "command", !.args = a])
    /\ UNCHANGED <<nodes, slot_to_node, standalone_mode, init_started,
                   init_finished, init_result, init_event, discovery_runs, env,
                   clientVars, sentinelVars, pureVars>>
    /\ UNCHANGED mutex

\* connect(): the test of init_finished_ made without init_mutex_; the read
\* races with the initializer's write and may miss it
ConnFast(t) ==
    /\ tk[t].pc = "cn_fast"
    /\ \E seen \in {init_finished, FALSE} :
          IF seen
          THEN Put(t, AfterConnect(tk[t], init_result))
          ELSE Put(t, [tk[t] EXCEPT !.pc = "cn_lock"])
    /\ UNCHANGED <<nodes, slot_to_node, standalone_mode, init_started,
                   init_finished, init_result, init_event, discovery_runs, env,
                   clientVars, sentinelVars, pureVars>>
    /\ UNCHANGED mutex

\* the caller that finds init_started_ clear becomes the initializer
EveryCallerInitializes == TRUE
WeAreInitializer == ~init_started

\* connect(): the critical section under init_mutex_
ConnLock(t) ==
    /\ tk[t].pc = "cn_lock"
    /\ IF init_finished
       THEN /\ Put(t, AfterConnect(tk[t], init_result))
            /\ UNCHANGED <<init_started, discovery_runs>>
       ELSE IF WeAreInitializer
       THEN /\ init_started' = TRUE
            /\ discovery_runs' = discovery_runs + 1
            /\ Put(t, [tk[t] EXCEPT !.pc = "ds_find", !.seed = 1])
       ELSE /\ Put(t, [tk[t] EXCEPT !.pc = "cn_wait"])
            /\ UNCHANGED <<init_started, discovery_runs>>
    /\ UNCHANGED <<nodes, slot_to_node, standalone_mode,
                   init_finished, init_result, init_event, env,
                   clientVars, sentinelVars, pureVars>>
    /\ UNCHANGED mutex

\* connect(): co_await init_event_.wait()
ConnWait(t) ==
    /\ tk[t].pc = "cn_wait"
    /\ init_event
    /\ Put(t, AfterConnect(tk[t], init_result))
    /\ UNCHANGED <<nodes, slot_to_node, standalone_mode, init_started,
                   init_finished, init_result, init_event, discovery_runs, env,
                   clientVars, sentinelVars, pureVars>>
    /\ UNCHANGED mutex

\* initial_discovery: the head of the loop over the seeds and the first
\* critical section of get_or_create_main_client_for_node for the seed; the
\* test of node->main_client after the block is taken in the same step,
\* since every other call waits in connect() until discovery has ended
DiscFind(t) ==
    /\ tk[t].pc = "ds_find"
    /\ IF tk[t].seed > Len(Seeds)
       THEN /\ Put(t, [tk[t] EXCEPT !.pc = "cn_finish", !.seed = 0,
                          !.resp = IoErr(PlainMsg("CLUSTER SLOTS failed on all seeds"))])
            /\ UNCHANGED nodes
       ELSE LET ep == Seeds[tk[t].seed]
                ns == EnsureNode(nodes, ep)
            IN  /\ nodes' = ns
                /\ Put(t, [tk[t] EXCEPT !.pc = IF MainOf(ns, ep) = "up"
                                                THEN "ds_slots" ELSE "ds_conn"])
    /\ UNCHANGED <<slot_to_node, standalone_mode, init_started,
                   init_finished, init_result, init_event, discovery_runs, env,
                   clientVars, sentinelVars, pureVars>>
    /\ ScopedGuard(t)

\* `continue` in the loop over the seeds
SkipsASeed(r) == [r EXCEPT !.pc = "ds_find", !.seed = @ + 2]
NextSeed(r) == [r EXCEPT !.pc = "ds_find", !.seed = @ + 1]

\* get_or_create_main_client_for_node: connect a fresh main client
DiscConn(t) ==
    /\ tk[t].pc = "ds_conn"
    /\ \E ok \in env.conn :
          IF ok
          THEN /\ nodes' = SetMain(nodes, Seeds[tk[t].seed], "up")
               /\ Put(t, [tk[t] EXCEPT !.pc = "ds_slots"])
          ELSE /\ UNCHANGED nodes
               /\ Put(t, NextSeed(tk[t]))
    /\ UNCHANGED <<slot_to_node, standalone_mode, init_started,
                   init_finished, init_result, init_event, discovery_runs, env,
                   clientVars, sentinelVars, pureVars>>
    /\ ScopedGuard(t)

\* the Array replies to CLUSTER SLOTS the store may give: range entries
\* [start, end, master, replicas]
Range(lo, hi, m, reps) ==
    [start |-> lo, end |-> hi, master |-> m, replicas |-> reps, form |-> "ok"]
\* an entry that is no array, has fewer than three items, or whose first two
\* items are not both integers
Malformed(kind) ==
    [start |-> 0, end |-> 0, master |-> "none", replicas |-> << >>, form |-> kind]
Topologies ==
    { << Range(0, 16383, "A", << >>) >>,
      << Range(0, 8191, "A", << >>), Range(8192, 16383, "B", << >>) >>,
      << Range(0, 16383, "B", <<"A">>) >> }

RECURSIVE EnsureAll(_, _)
EnsureAll(ns, eps) ==
    IF eps = << >> THEN ns
    ELSE EnsureAll(IF Head(eps) \in Endpoints THEN EnsureNode(ns, Head(eps)) ELSE ns,
                   Tail(eps))

\* the bounds of the loop that writes slot_to_node_ for a range entry
Unclamped(r) == [lo |-> r.start, hi |-> r.end]
ClampedRange(r) ==
    [lo |-> IF r.start < 0 THEN 0 ELSE r.start,
     hi |-> IF r.end > NumSlots - 1 THEN NumSlots - 1 ELSE r.end]

\* the loop over slot_ranges under mutex_
RECURSIVE ApplyRanges(_, _, _)
ApplyRanges(ranges, ns, tbl) ==
    IF ranges = << >> THEN [ns |-> ns, tbl |-> tbl]
    ELSE LET r == Head(ranges)
         IN  IF r.form # "ok" \/ r.master \notin Endpoints
             THEN ApplyRanges(Tail(ranges), ns, tbl)
             ELSE LET ns1 == EnsureNode(ns, r.master)
                      idx == FindNode(ns1, r.master)
                      c == ClampedRange(r)
                      tbl1 == [s \in Slots |->
                                 IF c.lo <= s /\ s <= c.hi THEN idx ELSE tbl[s]]
                  IN  ApplyRanges(Tail(ranges), EnsureAll(ns1, r.replicas), tbl1)

\* initial_discovery: CLUSTER SLOTS on the seed's main client and what
\* follows from the reply
DiscSlots(t) ==
    /\ tk[t].pc = "ds_slots"
    /\ LET ep == Seeds[tk[t].seed]
           next == NextSeed(tk[t])
       IN  \/ \* the read or write fails: Io, the main client is hard-closed
              /\ "io" \in env.slots
              /\ nodes' = SetMain(nodes, ep, "down")
              /\ Put(t, next)
              /\ UNCHANGED <<slot_to_node, standalone_mode>>
           \/ \* another error reply, or a reply that is no array
              /\ "error" \in env.slots
              /\ Put(t, next)
              /\ UNCHANGED <<nodes, slot_to_node, standalone_mode>>
           \/ \* cluster support disabled: fall back to standalone mode
              /\ "disabled" \in env.slots
              /\ is_cluster_disabled_error(ServerErr(ClusterDisabledMsg))
              /\ nodes' = IF nodes = << >>
                          THEN [i \in 1..Len(Seeds) |-> NewNode(Seeds[i])]
                          ELSE nodes
              /\ slot_to_node' = [s \in Slots |-> 0]
              /\ standalone_mode' = TRUE
              /\ Put(t, [tk[t] EXCEPT !.pc = "ds_prewarm"])
           \/ \* an Array reply
              \E topo \in env.topos :
                 LET a == ApplyRanges(topo, nodes, [s \in Slots |-> -1])
                 IN  /\ nodes' = a.ns
                     /\ slot_to_node' = a.tbl
                     /\ Put(t, [tk[t] EXCEPT !.pc = "ds_prewarm"])
                     /\ UNCHANGED standalone_mode
    /\ UNCHANGED <<init_started, init_finished, init_result, init_event,
                   discovery_runs, env,
                   clientVars, sentinelVars, pureVars>>
    /\ ScopedGuard(t)

Ups(k) == [i \in 1..k |-> "up"]

\* initial_discovery: prewarm every node's pool; for each node the loop
\* stops at the first connect that fails, so a node gets between 0 and
\* max_connections_per_node clients
DiscPrewarm(t) ==
    /\ tk[t].pc = "ds_prewarm"
    /\ \E ks \in [1..Len(nodes) -> env.prewarm] :
          nodes' = [i \in 1..Len(nodes) |->
                      [nodes[i] EXCEPT !.idle = @ \o Ups(ks[i]),
                                       !.ids = @ \o [j \in 1..ks[i] |-> Len(@) + j],
                                       !.live = @ + ks[i],
                                       !.sem = @ + ks[i]]]
    /\ Put(t, [tk[t] EXCEPT !.pc = "cn_finish", !.seed = 0, !.resp = Ok])
    /\ UNCHANGED <<slot_to_node, standalone_mode, init_started,
                   init_finished, init_result, init_event, discovery_runs, env,
                   clientVars, sentinelVars, pureVars>>
    /\ UNCHANGED mutex

\* connect(): the initializer stores the result and sets the event
ConnFinish(t) ==
    /\ tk[t].pc = "cn_finish"
    /\ init_result' = tk[t].resp
    /\ init_finished' = TRUE
    /\ init_event' = TRUE
    /\ Put(t, AfterConnect([tk[t] EXCEPT !.resp = NoResp], tk[t].resp))
    /\ UNCHANGED <<nodes, slot_to_node, standalone_mode, init_started,
                   discovery_runs, env,
                   clientVars, sentinelVars, pureVars>>
    /\ UNCHANGED mutex

(***************************************************************************)
(* Routing: node_index_for_slot_nolock, node_index_for_key_nolock,         *)
(* acquire_client_for_any, acquire_client_for_key.                         *)
(***************************************************************************)
Found(idx) == [ok |-> TRUE, idx |-> idx, err |-> NoResp]
Failed(e) == [ok |-> FALSE, idx |-> -1, err |-> e]

\* a lookup that sends the slots without owner to the first node
FirstNodeWhenEmpty(slot) ==
    IF slot < 0 \/ slot >= NumSlots
    THEN Failed(ProtoErr(PlainMsg("invalid slot")))
    ELSE LET idx == slot_to_node[slot]
         IN  IF idx < 0 \/ idx >= Len(nodes) THEN Found(0) ELSE Found(idx)

node_index_for_slot_nolock(slot) ==
    IF slot < 0 \/ slot >= NumSlots
    THEN Failed(ProtoErr(PlainMsg("invalid slot")))
    ELSE LET idx == slot_to_node[slot]
         IN  IF idx < 0 \/ idx >= Len(nodes)
             THEN Failed(ProtoErr(PlainMsg("slot mapping is empty")))
             ELSE Found(idx)

node_index_for_key_nolock(key) ==
    IF nodes = << >> THEN Failed(ProtoErr(PlainMsg("no nodes")))
    ELSE IF key = << >> THEN Found(0)
    ELSE node_index_for_slot_nolock(KeySlots[key])

acquire_client_for_any_node ==
    IF nodes = << >> THEN Failed(ProtoErr(PlainMsg("no nodes"))) ELSE Found(0)

acquire_client_for_key_node(key) ==
    IF key = << >> THEN acquire_client_for_any_node
    ELSE node_index_for_key_nolock(key)

\* command(): the loop condition of the redirection loop
LoopOneMore(attempt) == attempt <= MaxRedirections
LoopContinues(attempt) == attempt < MaxRedirections

\* co_return of command(): the locals die, the history stays
Finish(r, res) ==
    [r EXCEPT !.pc = "done", !.result = res, !.node = -1, !.cur_live = 0,
              !.ret = "none"]

\* `continue` in the loop of command()
NextAttempt(r) ==
    IF LoopContinues(r.attempt + 1)
    THEN [r EXCEPT !.pc = "lookup", !.attempt = @ + 1]
    ELSE Finish(r, ProtoErr(PlainMsg("too many redirections")))

\* command(): the head of one attempt, up to the call of
\* acquire_client_for_node_locked (the nested connect() returns the stored
\* result, which is a success here)
Lookup(t) ==
    /\ tk[t].pc = "lookup"
    /\ init_finished
    /\ LET f == IF tk[t].args = << >>
                THEN acquire_client_for_any_node
                ELSE acquire_client_for_key_node(tk[t].args[1])
       IN  IF f.ok
           THEN Put(t, [tk[t] EXCEPT !.pc = "acq_try", !.node = f.idx])
           ELSE Put(t, Finish(tk[t], f.err))
    /\ UNCHANGED <<nodes, slot_to_node, standalone_mode, init_started,
                   init_finished, init_result, init_event, discovery_runs, env,
                   clientVars, sentinelVars, pureVars>>
    /\ ScopedGuard(t)

(***************************************************************************)
(* The per-node pool: acquire_client_for_node_locked,                      *)
(* release_pooled_client, Node::notify_waiters_if_any.                     *)
(***************************************************************************)
SetNode(idx, n) == nodes' = [nodes EXCEPT ![idx + 1] = n]

PoolFrame == UNCHANGED <<slot_to_node, standalone_mode, init_started,
                         init_finished, init_result, init_event, discovery_runs, env,
                   clientVars, sentinelVars, pureVars>>

\* capacity of Node::idle, MPMCQueue(max_pool)
QueueCapacity == MaxConnectionsPerNode

\* what try_dequeue leaves in the queue
PeekOnly(q) == q
AfterDequeue(q) == Tail(q)

\* acquire: node->idle.try_dequeue(client) and the checks on the client
AcqTry(t) ==
    /\ tk[t].pc = "acq_try"
    /\ LET n == NodeAt(tk[t].node)
       IN  IF n.idle # << >>
           THEN LET c == Head(n.idle)
                    r == [tk[t] EXCEPT !.client = c, !.cid = Head(n.ids)]
                IN  /\ SetNode(tk[t].node, [n EXCEPT !.idle = AfterDequeue(@),
                                                     !.ids = AfterDequeue(@)])
                    /\ IF ~connected(c) \/ ~is_idle(c)
                       THEN Put(t, [r EXCEPT !.pc = "dec", !.ret = "acq_try"])
                       ELSE Put(t, [r EXCEPT !.pc = "send"])
           ELSE /\ Put(t, [tk[t] EXCEPT !.pc = "acq_load"])
                /\ UNCHANGED nodes
    /\ PoolFrame
    /\ UNCHANGED mutex

\* acquire: cur_live = live_count.load(); room for a new client?
HasRoom(cur_live) == cur_live < MaxConnectionsPerNode

AcqLoad(t) ==
    /\ tk[t].pc = "acq_load"
    /\ LET cur == NodeAt(tk[t].node).live
       IN  Put(t, [tk[t] EXCEPT !.cur_live = cur,
                               !.pc = IF HasRoom(cur) THEN "acq_cas" ELSE "acq_winc"])
    /\ UNCHANGED nodes
    /\ PoolFrame
    /\ UNCHANGED mutex

\* std::make_shared<RedisClient>: an object no task holds and no queue of
\* the node contains
FreshClient(idx) ==
    LET used == {NodeAt(idx).ids[j] : j \in 1..Len(NodeAt(idx).ids)}
                  \cup {tk[u].cid : u \in {v \in DOMAIN tk : tk[v].node = idx}}
    IN  CHOOSE k \in 1..(Cardinality(used) + 1) :
            k \notin used /\ \A j \in 1..(k - 1) : j \in used

\* live_count.compare_exchange_strong(cur_live, cur_live + 1)
StoreWithoutCompare(live, expected) == TRUE
CasSucceeds(live, expected) == live = expected

AcqCas(t) ==
    /\ tk[t].pc = "acq_cas"
    /\ LET n == NodeAt(tk[t].node)
       IN  IF CasSucceeds(n.live, tk[t].cur_live)
           THEN /\ SetNode(tk[t].node, [n EXCEPT !.live = tk[t].cur_live + 1])
                /\ Put(t, [tk[t] EXCEPT !.pc = "acq_conn", !.client = "new",
                                          !.cid = FreshClient(tk[t].node),
                                          !.cur_live = 0])
           ELSE /\ UNCHANGED nodes
                /\ Put(t, [tk[t] EXCEPT !.pc = "acq_try", !.cur_live = 0])
    /\ PoolFrame
    /\ UNCHANGED mutex

\* acquire: co_await cli->connect() of the fresh client
AcqConn(t) ==
    /\ tk[t].pc = "acq_conn"
    /\ \E ok \in env.conn :
          IF ok
          THEN Put(t, [tk[t] EXCEPT !.pc = "send", !.client = "up"])
          ELSE Put(t, [tk[t] EXCEPT !.pc = "dec", !.client = "down", !.ret = "fail",
                                    !.resp = IoErr(PlainMsg("async_connect failed"))])
    /\ UNCHANGED nodes
    /\ PoolFrame
    /\ UNCHANGED mutex

\* acquire: waiters.fetch_add(1)
AcqWinc(t) ==
    /\ tk[t].pc = "acq_winc"
    /\ LET n == NodeAt(tk[t].node)
       IN  SetNode(tk[t].node, [n EXCEPT !.waiters = @ + 1])
    /\ Put(t, [tk[t] EXCEPT !.pc = "acq_sem", !.cur_live = 0])
    /\ PoolFrame
    /\ UNCHANGED mutex

\* acquire: co_await idle_sem.acquire()
AcqSem(t) ==
    /\ tk[t].pc = "acq_sem"
    /\ LET n == NodeAt(tk[t].node)
       IN  /\ n.sem > 0
           /\ SetNode(tk[t].node, [n EXCEPT !.sem = @ - 1])
    /\ Put(t, [tk[t] EXCEPT !.pc = "acq_wdec"])
    /\ PoolFrame
    /\ UNCHANGED mutex

\* acquire: waiters.fetch_sub(1), then loop
AcqWdec(t) ==
    /\ tk[t].pc = "acq_wdec"
    /\ LET n == NodeAt(tk[t].node)
       IN  SetNode(tk[t].node, [n EXCEPT !.waiters = @ - 1])
    /\ Put(t, [tk[t] EXCEPT !.pc = "acq_try"])
    /\ PoolFrame
    /\ UNCHANGED mutex

\* live_count.fetch_sub(1): the client the task holds is given up
LiveAfterDiscard(live) == live - 1

Dec(t) ==
    /\ tk[t].pc = "dec"
    /\ LET n == NodeAt(tk[t].node)
       IN  SetNode(tk[t].node, [n EXCEPT !.live = LiveAfterDiscard(@)])
    /\ Put(t, [tk[t] EXCEPT !.pc = "notify", !.client = NoClient, !.cid = 0])
    /\ PoolFrame
    /\ UNCHANGED mutex

\* Node::notify_waiters_if_any, and where the caller goes on
WakeNeeded(waiters) == waiters > 0

\* command(): what follows release_pooled_client, from the reply kept in resp
StartMoved(r, rd) ==
    IF rd.slot < 0 \/ rd.slot >= NumSlots
    THEN NextAttempt([r EXCEPT !.redir = rd, !.applied = FALSE])
    ELSE [r EXCEPT !.pc = "mv_find", !.redir = rd, !.applied = FALSE]

RetryOnAnyError(r) ==
    IF ~IsError(r.resp) THEN Finish(r, r.resp) ELSE NextAttempt(r)
ReleaseAgain(r) ==
    IF ~IsError(r.resp) THEN [r EXCEPT !.pc = "rel"] ELSE NextAttempt(r)
AfterRelease(r) ==
    IF ~IsError(r.resp) THEN Finish(r, r.resp)
    ELSE IF r.resp.cat # "ServerReply" THEN Finish(r, r.resp)
    ELSE LET rd == parse_redirection(r.resp.msg)
         IN  IF rd.type = "None" THEN Finish(r, r.resp)
             ELSE IF rd.type = "Moved" THEN StartMoved(r, rd)
             ELSE [r EXCEPT !.pc = "ask_find", !.redir = rd, !.applied = FALSE]

Notify(t) ==
    /\ tk[t].pc = "notify"
    /\ LET n == NodeAt(tk[t].node)
       IN  IF WakeNeeded(n.waiters)
           THEN SetNode(tk[t].node, [n EXCEPT !.sem = @ + 1])
           ELSE UNCHANGED nodes
    /\ LET r == [tk[t] EXCEPT !.ret = "none"]
       IN  Put(t, CASE tk[t].ret = "acq_try" -> [r EXCEPT !.pc = "acq_try"]
                    [] tk[t].ret = "fail" -> Finish(r, r.resp)
                    [] OTHER -> AfterRelease(r))
    /\ PoolFrame
    /\ UNCHANGED mutex

\* the replies the store may give to a command
PlainReplies ==
    {Val("bar"), IoErr(PlainMsg("connection closed")), ServerErr(OtherErrMsg),
     ServerErr(TruncatedMoved)}
OneTooMany == 0..MaxConnectionsPerNode + 1
PrewarmCounts == 0..MaxConnectionsPerNode
Replies ==
    {Val("bar"), IoErr(PlainMsg("connection closed"))}
    \cup {ServerErr(RedirMsg("MOVED", FooSlot, e)) : e \in Endpoints}
    \cup {ServerErr(RedirMsg("MOVED", NumSlots, "B"))}
    \cup {ServerErr(RedirMsg("ASK", FooSlot, "A"))}

IsMoved(r) == r.cat = "ServerReply" /\ parse_redirection(r.msg).type = "Moved"

\* command(): pc.client->command(cmd, args) on the pooled client; an Io
\* failure hard-closes the client
Send(t) ==
    /\ tk[t].pc = "send"
    /\ \E rp \in env.replies :
          Put(t, [tk[t] EXCEPT !.pc = "rel", !.resp = rp, !.via = "pool",
                               !.client = IF rp.cat = "Io" THEN "down" ELSE @,
                               !.sent = @ + 1,
                               !.moved = IF IsMoved(rp) THEN @ + 1 ELSE @])
    /\ UNCHANGED nodes
    /\ PoolFrame
    /\ UNCHANGED mutex

\* command(): the connection_faulty argument of release_pooled_client
AnyErrorFaulty(resp) == IsError(resp)
ConnectionFaulty(resp) == IsError(resp) /\ resp.cat # "ServerReply"

\* release_pooled_client up to idle.try_enqueue
Release(t) ==
    /\ tk[t].pc = "rel"
    /\ LET n == NodeAt(tk[t].node)
           c == tk[t].client
       IN  IF \/ ConnectionFaulty(tk[t].resp)
              \/ ~connected(c)
              \/ ~is_idle(c)
              \/ Len(n.idle) >= QueueCapacity
           THEN /\ Put(t, [tk[t] EXCEPT !.pc = "dec", !.ret = "after_rel"])
                /\ UNCHANGED nodes
           ELSE /\ SetNode(tk[t].node, [n EXCEPT !.idle = Append(@, c),
                                                 !.ids = Append(@, tk[t].cid)])
                /\ Put(t, [tk[t] EXCEPT !.pc = "rel_sem", !.client = NoClient,
                                          !.cid = 0])
    /\ PoolFrame
    /\ UNCHANGED mutex

\* release_pooled_client: idle_sem.release() after the enqueue
RelSem(t) ==
    /\ tk[t].pc = "rel_sem"
    /\ LET n == NodeAt(tk[t].node)
       IN  SetNode(tk[t].node, [n EXCEPT !.sem = @ + 1])
    /\ Put(t, AfterRelease(tk[t]))
    /\ PoolFrame
    /\ UNCHANGED mutex

(***************************************************************************)
(* apply_moved and the ASK branch of command().                            *)
(***************************************************************************)
RouteFrame == UNCHANGED <<standalone_mode, init_started, init_finished,
                          init_result, init_event, discovery_runs, env,
                   clientVars, sentinelVars, pureVars>>

\* apply_moved: get_or_create_main_client_for_node, first critical section
MvFind(t) ==
    /\ tk[t].pc = "mv_find"
    /\ nodes' = EnsureNode(nodes, tk[t].redir.ep)
    /\ Put(t, [tk[t] EXCEPT !.pc = "mv_main"])
    /\ UNCHANGED slot_to_node
    /\ RouteFrame
    /\ ScopedGuard(t)

\* get_or_create_main_client_for_node, between its two critical sections:
\* if (node->main_client && node->main_client->connected()), read with no
\* guard alive; a connected main client is returned, else one is connected
MainCheck(t) ==
    /\ tk[t].pc \in {"mv_main", "ask_main"}
    /\ LET up == MainOf(nodes, tk[t].redir.ep) = "up"
       IN  Put(t, [tk[t] EXCEPT !.pc =
                      IF tk[t].pc = "mv_main"
                      THEN (IF up THEN "mv_write" ELSE "mv_conn")
                      ELSE (IF up THEN "ask_asking" ELSE "ask_conn")])
    /\ UNCHANGED <<nodes, slot_to_node>>
    /\ RouteFrame
    /\ UNCHANGED mutex

\* apply_moved: the main client is connected; on failure apply_moved returns
MvConn(t) ==
    /\ tk[t].pc = "mv_conn"
    /\ \E ok \in env.conn :
          IF ok
          THEN /\ nodes' = SetMain(nodes, tk[t].redir.ep, "up")
               /\ Put(t, [tk[t] EXCEPT !.pc = "mv_write"])
          ELSE /\ UNCHANGED nodes
               /\ Put(t, NextAttempt(tk[t]))
    /\ UNCHANGED slot_to_node
    /\ RouteFrame
    /\ ScopedGuard(t)

\* apply_moved: the index written for the target
OnePastTheEnd(ns, ep) == Len(ns)
MovedIndex(ns, ep) == FindNode(ns, ep)

\* apply_moved: under mutex_, slot_to_node_[r.slot] = idx
MvWrite(t) ==
    /\ tk[t].pc = "mv_write"
    /\ LET idx == MovedIndex(nodes, tk[t].redir.ep)
           s == tk[t].redir.slot
       IN  IF idx >= 0
           THEN /\ slot_to_node' = [x \in Slots |-> IF x = s THEN idx ELSE slot_to_node[x]]
                /\ tk' = [u \in DOMAIN tk |->
                            IF u = t THEN NextAttempt([tk[t] EXCEPT !.applied = TRUE])
                            ELSE IF tk[u].redir.slot = s
                            THEN [tk[u] EXCEPT !.applied = FALSE]
                            ELSE tk[u]]
           ELSE /\ UNCHANGED slot_to_node
                /\ Put(t, NextAttempt(tk[t]))
    /\ UNCHANGED nodes
    /\ RouteFrame
    /\ ScopedGuard(t)

\* ASK: get_or_create_main_client_for_node(redir.host, redir.port)
AskFind(t) ==
    /\ tk[t].pc = "ask_find"
    /\ nodes' = EnsureNode(nodes, tk[t].redir.ep)
    /\ Put(t, [tk[t] EXCEPT !.pc = "ask_main"])
    /\ UNCHANGED slot_to_node
    /\ RouteFrame
    /\ ScopedGuard(t)

AskConn(t) ==
    /\ tk[t].pc = "ask_conn"
    /\ \E ok \in env.conn :
          IF ok
          THEN /\ nodes' = SetMain(nodes, tk[t].redir.ep, "up")
               /\ Put(t, [tk[t] EXCEPT !.pc = "ask_asking"])
          ELSE /\ UNCHANGED nodes
               /\ Put(t, Finish(tk[t], IoErr(PlainMsg("async_connect failed"))))
    /\ UNCHANGED slot_to_node
    /\ RouteFrame
    /\ ScopedGuard(t)

\* ASK: (void) co_await ask_client->command("ASKING"); the reply is ignored,
\* an Io failure hard-closes the main client
AskAsking(t) ==
    /\ tk[t].pc = "ask_asking"
    /\ IF MainOf(nodes, tk[t].redir.ep) # "up"
       THEN UNCHANGED nodes
       ELSE \E ok \in BOOLEAN :
               IF ok THEN nodes' = SetAsked(nodes, tk[t].redir.ep, t)
               ELSE nodes' = SetMain(nodes, tk[t].redir.ep, "down")
    /\ Put(t, [tk[t] EXCEPT !.pc = "ask_retry"])
    /\ UNCHANGED slot_to_node
    /\ RouteFrame
    /\ UNCHANGED mutex

\* ASK: what command() does with the reply resp2 of the retry
ReturnAskReply(r, resp2) ==
    Finish(r, ServerErr(RedirMsg("ASK", r.redir.slot, r.redir.ep)))
AfterAskRetry(r, resp2) ==
    IF ~IsError(resp2) THEN Finish(r, resp2)
    ELSE LET rd == parse_redirection(resp2.msg)
         IN  IF rd.type = "None" THEN Finish(r, resp2)
             ELSE IF rd.type = "Moved" THEN StartMoved(r, rd)
             ELSE Finish(r, resp2)

\* ASK: resp2 = co_await ask_client->command(cmd, args)
AskRetry(t) ==
    /\ tk[t].pc = "ask_retry"
    /\ IF MainOf(nodes, tk[t].redir.ep) # "up"
       THEN /\ UNCHANGED nodes
            /\ LET e == IoErr(PlainMsg("RedisClient not connected"))
               IN  Put(t, AfterAskRetry([tk[t] EXCEPT !.resp = e, !.via = "ask"], e))
       ELSE \E rp \in env.replies :
               /\ IF rp.cat = "Io"
                  THEN nodes' = SetMain(nodes, tk[t].redir.ep, "down")
                  ELSE nodes' = SetAsked(nodes, tk[t].redir.ep, 0)
               /\ Put(t, AfterAskRetry([tk[t] EXCEPT !.resp = rp, !.via = "ask",
                                                      !.sent = @ + 1], rp))
    /\ UNCHANGED slot_to_node
    /\ RouteFrame
    /\ UNCHANGED mutex

(***************************************************************************)
(* RedisClient: connect(), command(), send_and_read_unlocked,              *)
(* read_one_reply_unlocked, hard_close_socket_unlocked.                    *)
(*                                                                         *)
(* A reply travels as two pieces, so that a read can end inside a reply.   *)
(* The reply to the k-th command written on connection g is the pieces     *)
(* [conn |-> g, k |-> k, half |-> 1] and [conn |-> g, k |-> k, half |-> 2].*)
(***************************************************************************)
Piece(g, k, h) == [conn |-> g, k |-> k, half |-> h]
ReplyOf(g, k) == <<Piece(g, k, 1), Piece(g, k, 2)>>
NoFrame == << >>

\* RespParser::next: the first complete frame of the buffer, if there is one;
\* the bytes of an incomplete frame stay in the buffer
parser_next(buf) ==
    IF Len(buf) >= 2
    THEN [frame |-> SubSeq(buf, 1, 2), rest |-> SubSeq(buf, 3, Len(buf))]
    ELSE [frame |-> NoFrame, rest |-> buf]

\* RespParser::feed: the bytes are appended to the buffer
parser_feed(buf, bytes) == buf \o bytes

\* the kinds of reply frame the store may give to AUTH or SELECT, and "io"
\* for a write or read that returns <= 0
ReplyKinds == {"SimpleString", "Error", "Integer", "BulkString", "Array", "Null"}
ExchangeOutcomes == ReplyKinds \cup {"io"}
\* a store that answers AUTH and SELECT as the protocol says, over a
\* connection that does not fail during the handshake
UsualOutcomes == {"SimpleString", "Error"}

\* a RedisClient after construction, with config_.password set or not and
\* config_.db, talking to a store that answers AUTH and SELECT with the
\* given kinds of reply
NewClient(password, db, kinds) ==
    [connected |-> FALSE, closing |-> FALSE, in_flight |-> FALSE,
     socket |-> "null", op_mutex |-> 0, parser |-> << >>,
     password |-> password, db |-> db, kinds |-> kinds,
     \* the TCP connection: its number, the commands written on it,
     \* the reply bytes on their way, the task that has written a
     \* part of its command, whether two commands' bytes got mixed
     conn |-> 0, written |-> 0, wire |-> << >>, mid |-> 0, mixed |-> FALSE]

\* the flags of the client as a call leaves them
Flags(c) == [connected |-> c.connected, closing |-> c.closing, socket |-> c.socket]
NoFlags == [connected |-> FALSE, closing |-> FALSE, socket |-> "none"]

NewCall ==
    [pc |-> "idle", op |-> "none", calls |-> 0, result |-> NoResp,
     \* history of the call: the reply this command is owed, the frame it
     \* got, whether a socket write or read of it returned <= 0, the kinds
     \* of the replies to AUTH and SELECT, the flags of the client when
     \* connect() returned
     mine |-> NoFrame, got |-> NoFrame, io_failed |-> FALSE,
     auth |-> "none", select |-> "none", ended |-> NoFlags]

ClientStart ==
    /\ cli = NewClient(TRUE, 0, UsualOutcomes)
    /\ ck = [t \in Tasks |-> NewCall]

ClientFrame == UNCHANGED <<clusterVars, sentinelVars, pureVars>>

PutC(t, r) == ck' = [ck EXCEPT ![t] = r]

\* the guard gives up op_mutex_ when the call returns
Unlock(c) == [c EXCEPT !.op_mutex = 0]

KeepsConnected(c) ==
    [c EXCEPT !.closing = TRUE,
              !.socket = IF @ = "null" THEN "null" ELSE "shut"]
hard_close_socket_unlocked(c) ==
    [c EXCEPT !.closing = TRUE, !.connected = FALSE,
              !.socket = IF @ = "null" THEN "null" ELSE "shut"]

\* a task calls connect() or command() on the client
CliStart(t) ==
    /\ ck[t].pc = "idle"
    /\ ck[t].calls < CallsPerTask
    /\ \E op \in {"connect", "command"} :
          PutC(t, [ck[t] EXCEPT !.pc = IF op = "connect" THEN "c_lock" ELSE "m_lock",
                                !.op = op, !.calls = @ + 1, !.result = NoResp,
                                !.mine = NoFrame, !.got = NoFrame, !.io_failed = FALSE,
                                !.auth = "none",
                                !.select = "none", !.ended = NoFlags])
    /\ UNCHANGED cli
    /\ ClientFrame

\* connect(): op_mutex_.lock(), then connect_unlocked up to async_connect
CliConnect(t) ==
    /\ ck[t].pc = "c_lock"
    /\ cli.op_mutex = 0
    /\ IF cli.connected
       THEN /\ PutC(t, [ck[t] EXCEPT !.pc = "idle", !.result = Ok,
                                     !.ended = Flags(cli)])
            /\ UNCHANGED cli
       ELSE /\ cli' = [cli EXCEPT !.op_mutex = t, !.closing = FALSE,
                                  !.socket = IF @ = "null" THEN "fresh" ELSE @]
            /\ PutC(t, [ck[t] EXCEPT !.pc = "c_conn"])
    /\ ClientFrame

\* connect_unlocked: the outcome of socket_->async_connect
CliAsyncConnect(t) ==
    /\ ck[t].pc = "c_conn"
    /\ \E ok \in BOOLEAN :
          IF ok
          THEN /\ cli' = [cli EXCEPT !.connected = TRUE, !.socket = "open",
                                     !.conn = @ + 1, !.written = 0,
                                     !.wire = << >>, !.mid = 0]
               /\ PutC(t, [ck[t] EXCEPT !.pc = "c_auth"])
          ELSE /\ cli' = Unlock([cli EXCEPT !.socket = "null", !.connected = FALSE,
                                            !.closing = TRUE])
               /\ PutC(t, [ck[t] EXCEPT !.pc = "idle",
                                        !.result = IoErr(PlainMsg("async_connect failed")),
                                        !.ended = Flags(cli')])
    /\ ClientFrame

\* send_and_read_unlocked as auth_and_select_unlocked sees it: an Error frame
\* is a ServerReply error, a failed write or read is Io, any other frame is a
\* value
ExchangeResult(kind) ==
    IF kind = "io" THEN IoErr(PlainMsg("connection closed"))
    ELSE IF kind = "Error" THEN ServerErr(OtherErrMsg)
    ELSE Val(kind)

\* the client after the exchange: a failed write or read has hard-closed it
AfterExchange(c, kind) ==
    IF kind = "io" THEN hard_close_socket_unlocked(c) ELSE c

\* auth_and_select_unlocked: the test it makes on the result r of an exchange
ExchangeFailed(r) == IsError(r)

\* auth_and_select_unlocked goes on to SELECT when config_.db is not 0
SelectNeeded(c) == c.db # 0

\* connect_unlocked: AUTH, when a password is configured; a failure makes
\* connect_unlocked hard-close the client and return the error; with db 0
\* a success is the return of connect()
CliAuth(t) ==
    /\ ck[t].pc = "c_auth"
    /\ IF cli.password
       THEN \E kind \in cli.kinds :
               LET r == ExchangeResult(kind)
                   c == AfterExchange(cli, kind)
               IN  IF ExchangeFailed(r)
                   THEN /\ cli' = Unlock(hard_close_socket_unlocked(c))
                        /\ PutC(t, [ck[t] EXCEPT !.pc = "idle", !.result = r,
                                                 !.auth = kind, !.ended = Flags(cli')])
                   ELSE IF SelectNeeded(c)
                   THEN /\ cli' = c
                        /\ PutC(t, [ck[t] EXCEPT !.pc = "c_select", !.auth = kind])
                   ELSE /\ cli' = Unlock(c)
                        /\ PutC(t, [ck[t] EXCEPT !.pc = "idle", !.result = Ok,
                                                 !.auth = kind, !.ended = Flags(cli')])
       ELSE IF SelectNeeded(cli)
       THEN /\ UNCHANGED cli
            /\ PutC(t, [ck[t] EXCEPT !.pc = "c_select"])
       ELSE /\ cli' = Unlock(cli)
            /\ PutC(t, [ck[t] EXCEPT !.pc = "idle", !.result = Ok,
                                     !.ended = Flags(cli')])
    /\ ClientFrame

\* connect_unlocked: SELECT and the return of connect()
CliSelect(t) ==
    /\ ck[t].pc = "c_select"
    /\ \E kind \in cli.kinds :
               LET r == ExchangeResult(kind)
                   c == AfterExchange(cli, kind)
               IN  IF ExchangeFailed(r)
                   THEN /\ cli' = Unlock(hard_close_socket_unlocked(c))
                        /\ PutC(t, [ck[t] EXCEPT !.pc = "idle", !.result = r,
                                                 !.select = kind, !.ended = Flags(cli')])
                   ELSE /\ cli' = Unlock(c)
                        /\ PutC(t, [ck[t] EXCEPT !.pc = "idle", !.result = Ok,
                                                 !.select = kind, !.ended = Flags(cli')])
    /\ ClientFrame

\* command(): the test made under op_mutex_ before in_flight_ is set
AcceptsAlways(c) == FALSE
NotConnected(c) == ~c.connected

\* command(): op_mutex_.lock(), the test of connected_, in_flight_ = true
CliCommand(t) ==
    /\ ck[t].pc = "m_lock"
    /\ cli.op_mutex = 0
    /\ IF NotConnected(cli)
       THEN /\ PutC(t, [ck[t] EXCEPT !.pc = "idle",
                                     !.result = IoErr(PlainMsg("RedisClient not connected"))])
            /\ UNCHANGED cli
       ELSE /\ cli' = [cli EXCEPT !.op_mutex = t, !.in_flight = TRUE]
            /\ PutC(t, [ck[t] EXCEPT !.pc = "m_write"])
    /\ ClientFrame

\* the socket takes a part of task t's command
Written(c, t) ==
    [c EXCEPT !.mixed = @ \/ (c.mid # 0 /\ c.mid # t), !.mid = t]

\* send_and_read_unlocked: the tests of connected_, closing_ and socket_,
\* then the first async_write
CliWriteHead(t) ==
    /\ ck[t].pc = "m_write"
    /\ IF ~cli.connected \/ cli.closing
       THEN /\ PutC(t, [ck[t] EXCEPT !.pc = "m_ret",
                                     !.result = IoErr(PlainMsg("not connected"))])
            /\ UNCHANGED cli
       ELSE IF cli.socket = "null"
       THEN /\ PutC(t, [ck[t] EXCEPT !.pc = "m_ret",
                                     !.result = IoErr(PlainMsg("socket is null"))])
            /\ UNCHANGED cli
       ELSE \E ok \in BOOLEAN :
               IF ok
               THEN /\ cli' = Written(cli, t)
                    /\ PutC(t, [ck[t] EXCEPT !.pc = "m_write2"])
               ELSE /\ cli' = hard_close_socket_unlocked(cli)
                    /\ PutC(t, [ck[t] EXCEPT !.pc = "m_ret", !.io_failed = TRUE,
                                             !.result = IoErr(PlainMsg("write failed"))])
    /\ ClientFrame

\* send_and_read_unlocked: the write that completes the frame; the store
\* answers a complete command
CliWriteTail(t) ==
    /\ ck[t].pc = "m_write2"
    /\ \E ok \in BOOLEAN :
          IF ok
          THEN LET k == cli.written + 1
               IN  /\ cli' = [Written(cli, t) EXCEPT
                                !.mid = 0, !.written = k,
                                !.wire = @ \o ReplyOf(cli.conn, k)]
                   /\ PutC(t, [ck[t] EXCEPT !.pc = "m_read",
                                            !.mine = ReplyOf(cli.conn, k)])
          ELSE /\ cli' = hard_close_socket_unlocked(cli)
               /\ PutC(t, [ck[t] EXCEPT !.pc = "m_ret", !.io_failed = TRUE,
                                        !.result = IoErr(PlainMsg("write failed"))])
    /\ ClientFrame

\* read_one_reply_unlocked: one turn of the loop
CliRead(t) ==
    /\ ck[t].pc = "m_read"
    /\ LET nx == parser_next(cli.parser)
       IN  IF nx.frame # NoFrame
           THEN /\ cli' = [cli EXCEPT !.parser = nx.rest]
                /\ PutC(t, [ck[t] EXCEPT !.pc = "m_ret", !.got = nx.frame,
                                         !.result = Val("reply")])
           ELSE \/ \* async_read returns <= 0: fault, timeout or peer close
                   /\ cli' = hard_close_socket_unlocked(cli)
                   /\ PutC(t, [ck[t] EXCEPT !.pc = "m_ret", !.io_failed = TRUE,
                                            !.result = IoErr(PlainMsg("connection closed"))])
                \/ \* async_read returns some of the bytes on their way
                   \E n \in 1..Len(cli.wire) :
                      /\ cli' = [cli EXCEPT
                                   !.parser = parser_feed(@, SubSeq(cli.wire, 1, n)),
                                   !.wire = SubSeq(@, n + 1, Len(@))]
                      /\ UNCHANGED ck
    /\ ClientFrame

\* command() returns: ~ResetInFlight clears in_flight_, the guard unlocks
CliReturn(t) ==
    /\ ck[t].pc = "m_ret"
    /\ cli' = Unlock([cli EXCEPT !.in_flight = FALSE])
    /\ PutC(t, [ck[t] EXCEPT !.pc = "idle"])
    /\ ClientFrame

\* a command() suspended in async_write after a part of its frame was
\* written, or in async_read before its reply is complete, is cancelled: the
\* coroutine is destroyed where it is suspended, which runs the destructors
\* of its locals, ~ResetInFlight and the guard of op_mutex_, and nothing
\* else; the call has no result
CliCancel(t) ==
    /\ ck[t].pc \in {"m_write2", "m_read"}
    /\ cli' = Unlock([cli EXCEPT !.in_flight = FALSE])
    /\ PutC(t, [ck[t] EXCEPT !.pc = "idle",
                             !.result = [cat |-> "Cancelled", msg |-> "none"]])
    /\ ClientFrame

ClientStep(t) ==
    \/ CliStart(t) \/ CliConnect(t) \/ CliAsyncConnect(t)
    \/ CliAuth(t)
    \/ CliCommand(t) \/ CliWriteHead(t) \/ CliWriteTail(t) \/ CliRead(t)
    \/ CliReturn(t)

(***************************************************************************)
(* RedisSentinelPool: ensure_connected_locked, connect(), command().       *)
(* pool_ is null (0) or the n-th RedisPool built (n).                      *)
(***************************************************************************)
SentinelStart ==
    /\ sp = [mutex |-> 0, connected |-> FALSE, pool |-> 0, built |-> 0]
    /\ st = [t \in Tasks |->
               [pc |-> "idle", op |-> "none", pool |-> 0, err |-> NoResp,
                result |-> NoResp,
                \* history of this command() call: the replies of its
                \* forwards, the pools it dropped, the resolutions of the
                \* master it ran after a failed forward
                resp |-> NoResp, resp2 |-> NoResp, forwards |-> 0,
                dropped |-> 0, reresolved |-> 0]]

SentinelFrame == UNCHANGED <<clusterVars, clientVars, pureVars>>

PutS(t, r) == st' = [st EXCEPT ![t] = r]

\* the replies RedisPool::command may give
PoolReplies ==
    {Val("bar"), IoErr(PlainMsg("connection closed")),
     ProtoErr(PlainMsg("malformed reply")), ServerErr(OtherErrMsg)}

\* ensure_connected_locked: nothing to do when connected_ and pool_ are set
IsConnected(s) == s.connected /\ s.pool # 0

\* ensure_connected_locked: resolve_master_from_sentinel and
\* RedisPool::connect_all; "ok", or the error of the step that failed
EnsureOutcomes == {"ok", "resolve failed", "connect_all failed"}

\* ensure_connected_locked after a successful connect_all
Connected(s) == [s EXCEPT !.pool = s.built + 1, !.built = @ + 1, !.connected = TRUE]

\* a task calls connect() or command() on the sentinel pool
SnStart(t) ==
    /\ st[t].pc = "idle"
    /\ \E op \in {"connect", "command"} :
          PutS(t, [st[t] EXCEPT !.pc = "s_lock", !.op = op])
    /\ UNCHANGED sp
    /\ SentinelFrame

\* connect() and command(): mutex_.lock() and the head of
\* ensure_connected_locked
SnLock(t) ==
    /\ st[t].pc = "s_lock"
    /\ sp.mutex = 0
    /\ IF IsConnected(sp)
       THEN /\ UNCHANGED sp
            /\ IF st[t].op = "connect"
               THEN PutS(t, [st[t] EXCEPT !.pc = "done", !.result = Ok])
               ELSE PutS(t, [st[t] EXCEPT !.pc = "s_fwd", !.pool = sp.pool])
       ELSE /\ sp' = [sp EXCEPT !.mutex = t]
            /\ PutS(t, [st[t] EXCEPT !.pc = "s_ensure"])
    /\ SentinelFrame

\* ensure_connected_locked: the master is resolved and the pool built, with
\* mutex_ held
SnEnsure(t) ==
    /\ st[t].pc = "s_ensure"
    /\ \E o \in EnsureOutcomes :
          IF o = "ok"
          THEN LET s1 == Connected(sp)
               IN  /\ sp' = [s1 EXCEPT !.mutex = 0]
                   /\ IF st[t].op = "connect"
                      THEN PutS(t, [st[t] EXCEPT !.pc = "done", !.result = Ok])
                      ELSE PutS(t, [st[t] EXCEPT !.pc = "s_fwd", !.pool = s1.pool])
          ELSE /\ sp' = [sp EXCEPT !.mutex = 0]
               /\ PutS(t, [st[t] EXCEPT !.pc = "done", !.result = IoErr(PlainMsg(o))])
    /\ SentinelFrame

\* command(): what follows the first forward
RetryOnEveryError(resp) == IsError(resp)
NeedsRetry(resp) == IsError(resp) /\ resp.cat = "Io"

\* command(): resp = co_await pool->command(cmd, args)
SnForward(t) ==
    /\ st[t].pc = "s_fwd"
    /\ \E rp \in PoolReplies :
          LET r == [st[t] EXCEPT !.resp = rp, !.forwards = @ + 1]
          IN  IF NeedsRetry(rp)
              THEN PutS(t, [r EXCEPT !.pc = "s_relock", !.err = rp])
              ELSE PutS(t, [r EXCEPT !.pc = "done", !.result = rp])
    /\ UNCHANGED sp
    /\ SentinelFrame

\* command() after an Io failure: mutex_.lock(), connected_ = false,
\* pool_.reset()
SnDrop(t) ==
    /\ st[t].pc = "s_relock"
    /\ sp.mutex = 0
    /\ sp' = [sp EXCEPT !.mutex = t, !.connected = FALSE, !.pool = 0]
    /\ PutS(t, [st[t] EXCEPT !.pc = "s_reensure", !.pool = 0, !.dropped = @ + 1])
    /\ SentinelFrame

\* command(): what it returns when the reconnection failed with e2
ReconnectError(err, e2) == e2
AfterFailedReensure(err, e2) == err

\* command() after an Io failure: ensure_connected_locked with mutex_ held
SnReensure(t) ==
    /\ st[t].pc = "s_reensure"
    /\ \E o \in EnsureOutcomes :
          LET r == [st[t] EXCEPT !.reresolved = @ + 1]
          IN  IF o = "ok"
              THEN LET s1 == Connected(sp)
                   IN  /\ sp' = [s1 EXCEPT !.mutex = 0]
                       /\ PutS(t, [r EXCEPT !.pc = "s_fwd2", !.pool = s1.pool])
              ELSE /\ sp' = [sp EXCEPT !.mutex = 0]
                   /\ PutS(t, [r EXCEPT !.pc = "done",
                          !.result = AfterFailedReensure(r.err, IoErr(PlainMsg(o)))])
    /\ SentinelFrame

\* command(): what it returns after the second forward
FirstErrorIfFailed(err, resp2) == IF IsError(resp2) THEN err ELSE resp2
AfterSecondForward(err, resp2) == resp2

\* command(): resp2 = co_await pool->command(cmd, args); co_return resp2
SnForwardAgain(t) ==
    /\ st[t].pc = "s_fwd2"
    /\ \E rp \in PoolReplies :
          PutS(t, [st[t] EXCEPT !.pc = "done", !.resp2 = rp, !.forwards = @ + 1,
                                !.result = AfterSecondForward(st[t].err, rp)])
    /\ UNCHANGED sp
    /\ SentinelFrame

SentinelStep(t) ==
    \/ SnStart(t) \/ SnLock(t) \/ SnEnsure(t) \/ SnForward(t)
    \/ SnDrop(t) \/ SnReensure(t) \/ SnForwardAgain(t)

(***************************************************************************)
(* resolve_master_from_sentinel.  A string is a tuple of characters; a     *)
(* RedisValue is a record of its type and its value.                       *)
(***************************************************************************)
Digits == {"0", "1", "2", "3", "4", "5", "6", "7", "8", "9"}
DigitVal ==
    [c \in Digits |->
        CASE c = "0" -> 0 [] c = "1" -> 1 [] c = "2" -> 2 [] c = "3" -> 3
          [] c = "4" -> 4 [] c = "5" -> 5 [] c = "6" -> 6 [] c = "7" -> 7
          [] c = "8" -> 8 [] c = "9" -> 9]

\* the value of the first n characters of str, all decimal digits
RECURSIVE DecimalOf(_, _)
DecimalOf(str, n) ==
    IF n = 0 THEN 0 ELSE 10 * DecimalOf(str, n - 1) + DigitVal[str[n]]

\* std::from_chars(begin, end, tmp) for an unsigned long: the longest prefix
\* of digits is converted; without a leading digit the result is
\* invalid_argument.  (The strings of the model are too short to exceed an
\* unsigned long.)
from_chars(str) ==
    LET lead == {n \in 0..Len(str) : \A j \in 1..n : str[j] \in Digits}
        n == CHOOSE k \in lead : \A j \in lead : j <= k
    IN  IF n = 0 THEN [ec |-> "invalid_argument", tmp |-> 0]
        ELSE [ec |-> "ok", tmp |-> DecimalOf(str, n)]

RedisValue(type, str, n, items) ==
    [type |-> type, str |-> str, n |-> n, items |-> items]
Bulk(str) == RedisValue("BulkString", str, 0, << >>)
Simple(str) == RedisValue("SimpleString", str, 0, << >>)
Array(items) == RedisValue("Array", << >>, 0, items)
is_string(x) == x.type \in {"BulkString", "SimpleString"}

\* the port strings a sentinel may send
PortStrings ==
    {<<"6", "3", "7", "9">>, <<"0">>, <<"6", "5", "5", "3", "5">>, <<"6", "5", "5", "3", "6">>,
     << >>, <<"x">>, <<"8", "0", "x">>, <<"-", "1">>}
\* the replies a sentinel may give to SENTINEL get-master-addr-by-name
SentinelReplies ==
    {Array(<<Bulk(<<"m", "1">>), Bulk(p)>>) : p \in PortStrings}
      \cup {Array(<<Simple(<<"m", "2">>), Simple(<<"6", "3", "8", "0">>)>>),
            Array(<<Bulk(<<"m", "1">>), RedisValue("Integer", << >>, 6379, << >>)>>),
            Array(<<RedisValue("Null", << >>, 0, << >>), Bulk(<<"8", "0">>)>>),
            Array(<<Bulk(<<"m", "2">>), Bulk(<<"8", "0">>), Bulk(<<"x">>)>>),
            Array(<<Bulk(<<"m", "1">>)>>), Array(<< >>), Bulk(<<"m", "1">>),
            RedisValue("Null", << >>, 0, << >>)}
\* a sentinel: whether it accepts the connection, and what command() returns
Sentinels ==
    {[connect |-> FALSE, resp |-> NoResp]}
      \cup {[connect |-> TRUE, resp |-> r] :
              r \in {IoErr(PlainMsg("connection closed")), ServerErr(OtherErrMsg)}
                      \cup {Val(v) : v \in SentinelReplies}}
SentinelLists == UNION {[1..n -> Sentinels] : n \in 0..MaxSentinels}

\* cfg.base_redis
Template(db, password) ==
    [host |-> << >>, port |-> 6379, db |-> db, username |-> "none",
     password |-> password, connect_timeout_ms |-> 5000, io_timeout_ms |-> 5000]
Templates == {Template(0, "none"), Template(3, "secret")}

\* the checks of the reply, in the order of the code: the master's address, or
\* the reply is rejected
Rejected == [ok |-> FALSE, host |-> << >>, port |-> 0]
MasterAddress(v) ==
    IF v.type # "Array" THEN Rejected
    ELSE IF Len(v.items) < 2 \/ ~is_string(v.items[1]) \/ ~is_string(v.items[2])
    THEN Rejected
    ELSE LET fc == from_chars(v.items[2].str)
         IN  IF fc.ec # "ok" \/ fc.tmp > 65535 THEN Rejected
             ELSE [ok |-> TRUE, host |-> v.items[1].str, port |-> fc.tmp]

NoResolve ==
    [pc |-> "idle", sentinels |-> << >>, base |-> Template(0, "none"), i |-> 0,
     contacted |-> << >>, result |-> NoResp]
ResolveCall(sentinels, base) ==
    [NoResolve EXCEPT !.pc = "call", !.sentinels = sentinels, !.base = base]

ResolveFrame == UNCHANGED <<clusterVars, clientVars, sentinelVars, hs>>

\* the loop goes on to the next sentinel
NextSentinel(r) == [r EXCEPT !.pc = "connect", !.i = @ + 1]

\* cfg.sentinels.empty()
RsStart ==
    /\ rs.pc = "call"
    /\ rs' = IF rs.sentinels = << >>
             THEN [rs EXCEPT !.pc = "done",
                     !.result = IoErr(PlainMsg("RedisSentinel: no sentinels configured"))]
             ELSE [rs EXCEPT !.pc = "connect", !.i = 1]
    /\ ResolveFrame

\* sentinel_client.connect() on the next sentinel of the list
RsConnect ==
    /\ rs.pc = "connect" /\ rs.i <= Len(rs.sentinels)
    /\ LET r == [rs EXCEPT !.contacted = Append(@, rs.i)]
       IN  rs' = IF rs.sentinels[rs.i].connect
                 THEN [r EXCEPT !.pc = "query"]
                 ELSE NextSentinel(r)
    /\ ResolveFrame

\* SENTINEL get-master-addr-by-name and the checks of its reply
RsQuery ==
    /\ rs.pc = "query"
    /\ LET resp == rs.sentinels[rs.i].resp
       IN  rs' = IF IsError(resp) THEN NextSentinel(rs)
                 ELSE LET m == MasterAddress(resp.msg)
                      IN  IF ~m.ok THEN NextSentinel(rs)
                          ELSE [rs EXCEPT !.pc = "done",
                                  !.result = Val([rs.base EXCEPT !.host = m.host,
                                                                  !.port = m.port])]
    /\ ResolveFrame

\* the list is exhausted
RsFail ==
    /\ rs.pc = "connect" /\ rs.i > Len(rs.sentinels)
    /\ rs' = [rs EXCEPT !.pc = "done",
                !.result = IoErr(PlainMsg("RedisSentinel: all sentinels failed"))]
    /\ ResolveFrame

(***************************************************************************)
(* The specifications.                                                     *)
(***************************************************************************)
ConnStep(t) ==
    \/ CmdStart(t) \/ ConnFast(t) \/ ConnLock(t) \/ ConnWait(t)
    \/ DiscFind(t) \/ DiscConn(t) \/ DiscSlots(t) \/ DiscPrewarm(t) \/ ConnFinish(t)

PoolStep(t) ==
    \/ Lookup(t)
    \/ AcqTry(t) \/ AcqLoad(t) \/ AcqCas(t) \/ AcqConn(t)
    \/ AcqWinc(t) \/ AcqSem(t) \/ AcqWdec(t)
    \/ Dec(t) \/ Notify(t) \/ Send(t) \/ Release(t) \/ RelSem(t)

RedirStep(t) ==
    \/ MvFind(t) \/ MainCheck(t) \/ MvConn(t) \/ MvWrite(t)
    \/ AskFind(t) \/ AskConn(t) \/ AskAsking(t) \/ AskRetry(t)

SplitTopology == << Range(0, 8191, "A", << >>), Range(8192, 16383, "B", << >>) >>

\* Spec: NumTasks concurrent command() calls on a fresh router; the store
\* answers CLUSTER SLOTS with the two-master topology and a command with any
\* reply
RouterEnv ==
    [api |-> {"command"}, args |-> {<<KeyFoo>>}, replies |-> Replies,
     slots |-> {}, topos |-> {SplitTopology}, conn |-> BOOLEAN,
     prewarm |-> {MaxConnectionsPerNode}]

Init ==
    /\ ClusterStart
    /\ tk = [t \in Tasks |-> InitTask]
    /\ env = RouterEnv
    /\ ClientStart
    /\ SentinelStart
    /\ hs = NoCall
    /\ rs = NoResolve
Next == \E t \in DOMAIN tk : ConnStep(t) \/ PoolStep(t) \/ RedirStep(t)
Spec == Init /\ [][Next]_vars

\* SpecConnect: NumCallers concurrent connect() calls on a fresh router; the
\* store answers CLUSTER SLOTS in any way
ConnectEnv ==
    [api |-> {"connect"}, args |-> {<< >>}, replies |-> {},
     slots |-> {"io", "error", "disabled"}, topos |-> Topologies,
     conn |-> BOOLEAN, prewarm |-> PrewarmCounts]

ConnectInit ==
    /\ ClusterStart
    /\ tk = [t \in 1..NumCallers |-> InitTask]
    /\ env = ConnectEnv
    /\ ClientStart
    /\ SentinelStart
    /\ hs = NoCall
    /\ rs = NoResolve
ConnectNext == \E t \in DOMAIN tk : ConnStep(t)
SpecConnect == ConnectInit /\ [][ConnectNext]_vars

\* SpecPool: NumTasks concurrent commands whose replies are values, Io
\* failures or plain errors, so that only the pool is exercised; the
\* endpoints either accept every connection or may refuse any; every task
\* that can take a step eventually takes one
PoolEnv(conn, prewarm) ==
    [api |-> {"command"}, args |-> {<<KeyFoo>>},
     replies |-> PlainReplies,
     slots |-> {}, topos |-> {SplitTopology}, conn |-> conn, prewarm |-> prewarm]
Accepting == PoolEnv({TRUE}, {MaxConnectionsPerNode})
Refusing == PoolEnv(BOOLEAN, PrewarmCounts)

PoolInit ==
    /\ ClusterStart
    /\ tk = [t \in Tasks |-> InitTask]
    /\ env \in {Accepting, Refusing}
    /\ ClientStart
    /\ SentinelStart
    /\ hs = NoCall
    /\ rs = NoResolve
PoolNext == \E t \in DOMAIN tk : ConnStep(t) \/ PoolStep(t)
SpecPool ==
    /\ PoolInit
    /\ [][PoolNext]_vars
    /\ \A t \in Tasks : WF_vars(ConnStep(t) \/ PoolStep(t))

\* SpecClient: NumTasks tasks call connect() and command() on one
\* RedisClient with a password and db 0, CallsPerTask times each
ClientInit ==
    /\ ClusterStart
    /\ tk = [t \in Tasks |-> InitTask]
    /\ env = RouterEnv
    /\ ClientStart
    /\ SentinelStart
    /\ hs = NoCall
    /\ rs = NoResolve
ClientNext == \E t \in Tasks : ClientStep(t)
SpecClient == ClientInit /\ [][ClientNext]_vars

\* SpecCancel: as SpecClient, and a command() may be cancelled while it is
\* suspended on the socket
CancelInit ==
    /\ ClusterStart
    /\ tk = [t \in Tasks |-> InitTask]
    /\ env = RouterEnv
    /\ ClientStart
    /\ SentinelStart
    /\ hs = NoCall
    /\ rs = NoResolve
CancelNext == \E t \in Tasks : ClientStep(t) \/ CliCancel(t)
SpecCancel == CancelInit /\ [][CancelNext]_vars

\* SpecDiscover: NumTasks connect() calls on a fresh router whose first
\* seed answers CLUSTER SLOTS with an Array of at most MaxRanges entries:
\* ranges whose bounds lie in or outside the table, masters and replicas
\* with a valid or an invalid address, entries of another shape
RangeEntries ==
    {Range(lo, hi, m, << >>) : lo \in {-1, 8192, 20000},
                               hi \in {-1, 8191, 20000},
                               m \in {"A", "B", "bad"}}
    \cup {Range(0, 16383, "B", <<"A">>), Range(0, 16383, "A", <<"B">>),
          Range(0, 8191, "A", <<"bad">>)}
    \cup {Malformed(k) : k \in {"not_array", "short", "not_integer"}}
SlotsReplies == UNION {[1..n -> RangeEntries] : n \in 0..MaxRanges}
DiscoverEnv(topo) ==
    [api |-> {"connect"}, args |-> {<< >>}, replies |-> {},
     slots |-> {}, topos |-> {topo}, conn |-> {TRUE}, prewarm |-> {0}]

DiscoverInit ==
    /\ ClusterStart
    /\ tk = [t \in Tasks |-> InitTask]
    /\ env \in {DiscoverEnv(topo) : topo \in SlotsReplies}
    /\ ClientStart
    /\ SentinelStart
    /\ hs = NoCall
    /\ rs = NoResolve
DiscoverNext == \E t \in DOMAIN tk : ConnStep(t)
SpecDiscover == DiscoverInit /\ [][DiscoverNext]_vars

\* SpecAuth: as SpecClient, for a client with a password or none and db 0 or
\* another, and a store that may answer AUTH and SELECT with a frame of any
\* kind
Databases == {0, 1}
AuthInit ==
    /\ ClusterStart
    /\ tk = [t \in Tasks |-> InitTask]
    /\ env = RouterEnv
    /\ cli \in {NewClient(p, d, ExchangeOutcomes) : p \in BOOLEAN, d \in Databases}
    /\ ck = [t \in Tasks |-> NewCall]
    /\ SentinelStart
    /\ hs = NoCall
    /\ rs = NoResolve
AuthNext == \E t \in Tasks : ClientStep(t) \/ CliSelect(t)
SpecAuth == AuthInit /\ [][AuthNext]_vars

\* SpecRoute: NumTasks concurrent calls on a fresh router in front of
\*   - a store without cluster support that answers commands with values,
\*     failures and plain errors;
\*   - a store without cluster support whose replies may have the shape of
\*     a MOVED or ASK redirection;
\*   - seeds on which CLUSTER SLOTS fails (no reply, or an error that is not
\*     "cluster support disabled");
\*   - a cluster in which the first seed is a replica of the only master,
\*     called with no args, an empty first argument or the key "foo";
\*   - a cluster in which the slot of the key "foo" has no owner;
\*   - a cluster whose only listed master may answer with a MOVED to a node
\*     the router has not seen
ReplicaSeedTopology == << Range(0, 16383, "B", <<"A">>) >>
\* a reply to CLUSTER SLOTS that leaves the slots from 8192 on without owner
LowerHalfTopology == << Range(0, 8191, "A", << >>) >>
SingleMasterTopology == << Range(0, 16383, "A", << >>) >>
RouteEnvs ==
    { [api |-> {"command"}, args |-> {<<KeyFoo>>}, replies |-> PlainReplies,
       slots |-> {"disabled"}, topos |-> {}, conn |-> BOOLEAN,
       prewarm |-> {MaxConnectionsPerNode}],
      [api |-> {"command"}, args |-> {<<KeyFoo>>},
       replies |-> {Val("bar"), ServerErr(RedirMsg("MOVED", FooSlot, "B")),
                    ServerErr(RedirMsg("ASK", FooSlot, "B"))},
       slots |-> {"disabled"}, topos |-> {}, conn |-> {TRUE},
       prewarm |-> {MaxConnectionsPerNode}],
      [api |-> {"connect", "command"}, args |-> {<<KeyFoo>>}, replies |-> {},
       slots |-> {"io", "error"}, topos |-> {}, conn |-> BOOLEAN,
       prewarm |-> {MaxConnectionsPerNode}],
      [api |-> {"command"}, args |-> {<< >>, <<KeyEmpty>>, <<KeyFoo>>},
       replies |-> {Val("bar")},
       slots |-> {}, topos |-> {ReplicaSeedTopology}, conn |-> {TRUE},
       prewarm |-> {MaxConnectionsPerNode}],
      [api |-> {"command"}, args |-> {<<KeyFoo>>}, replies |-> {Val("bar")},
       slots |-> {}, topos |-> {LowerHalfTopology}, conn |-> {TRUE},
       prewarm |-> {MaxConnectionsPerNode}],
      [api |-> {"command"}, args |-> {<<KeyFoo>>},
       replies |-> {Val("bar"), ServerErr(RedirMsg("MOVED", FooSlot, "B"))},
       slots |-> {}, topos |-> {SingleMasterTopology}, conn |-> {TRUE},
       prewarm |-> {MaxConnectionsPerNode}] }

RouteInit ==
    /\ ClusterStart
    /\ tk = [t \in Tasks |-> InitTask]
    /\ env \in RouteEnvs
    /\ ClientStart
    /\ SentinelStart
    /\ hs = NoCall
    /\ rs = NoResolve
RouteNext == \E t \in DOMAIN tk : ConnStep(t) \/ PoolStep(t) \/ RedirStep(t)
SpecRoute == RouteInit /\ [][RouteNext]_vars

\* SpecSentinel: NumTasks tasks call connect() or command() on one
\* RedisSentinelPool
SentinelInit ==
    /\ ClusterStart
    /\ tk = [t \in Tasks |-> InitTask]
    /\ env = RouterEnv
    /\ ClientStart
    /\ SentinelStart
    /\ hs = NoCall
    /\ rs = NoResolve
SentinelNext == \E t \in Tasks : SentinelStep(t)
SpecSentinel == SentinelInit /\ [][SentinelNext]_vars

\* the slot of a key: calc_slot applied to what extract_hash_tag returns
SlotApply ==
    /\ hs.pc = "call"
    /\ hs' = [hs EXCEPT !.pc = "done",
                        !.slot = calc_slot(extract_hash_tag(hs.key))]
    /\ UNCHANGED <<clusterVars, clientVars, sentinelVars, rs>>

\* SpecSlot: the slot function applied once to a key of SlotKeys
SlotInit ==
    /\ ClusterStart
    /\ tk = [t \in Tasks |-> InitTask]
    /\ env = RouterEnv
    /\ ClientStart
    /\ SentinelStart
    /\ hs \in {SlotCall(k) : k \in SlotKeys}
    /\ rs = NoResolve
SlotNext == SlotApply
SpecSlot == SlotInit /\ [][SlotNext]_vars

\* SpecResolve: one call of resolve_master_from_sentinel for a list of at
\* most MaxSentinels sentinels and a template
ResolveInit ==
    /\ ClusterStart
    /\ tk = [t \in Tasks |-> InitTask]
    /\ env = RouterEnv
    /\ ClientStart
    /\ SentinelStart
    /\ hs = NoCall
    /\ rs \in {ResolveCall(l, b) : l \in SentinelLists, b \in Templates}
ResolveNext == RsStart \/ RsConnect \/ RsQuery \/ RsFail
SpecResolve == ResolveInit /\ [][ResolveNext]_vars

(***************************************************************************)
(* Properties of the per-node pool.                                        *)
(***************************************************************************)
\* the pooled clients of node i (1-based) that tasks hold: dequeued, being
\* connected after a successful CAS, in use, or about to be given up
CheckedOut(i) ==
    Cardinality({t \in DOMAIN tk : tk[t].node = i - 1 /\ tk[t].client # NoClient})

\* C1: for every node, in every reachable state, live_count is at most
\* max_connections_per_node and equals the number of clients tasks hold plus
\* the length of the idle queue.
C1_PoolBound ==
    \A i \in 1..Len(nodes) :
        /\ nodes[i].live <= MaxConnectionsPerNode
        /\ nodes[i].live = CheckedOut(i) + Len(nodes[i].idle)

\* a full pool whose only client is in use while another task has found the
\* pool full and waits
C1_Witness ==
    \E i \in 1..Len(nodes) :
        /\ nodes[i].live = MaxConnectionsPerNode
        /\ nodes[i].idle = << >>
        /\ \E t, u \in DOMAIN tk :
              /\ tk[t].node = i - 1 /\ tk[t].pc = "send"
              /\ tk[u].node = i - 1 /\ tk[u].pc = "acq_sem"

\* C3 (as the claim states it): when the endpoints accept connections, a
\* task that waits on idle_sem in the pool acquire eventually leaves the
\* wait.
C3_WaiterWakes ==
    \A t \in Tasks :
        (env = Accepting /\ tk[t].pc = "acq_sem") ~> (tk[t].pc # "acq_sem")

(***************************************************************************)
(* Properties of connect().                                                *)
(***************************************************************************)
\* C2: initial_discovery runs at most once, it has run exactly once when a
\* caller returns, and every caller returns the result of that run.
C2_SingleFlight ==
    /\ discovery_runs <= 1
    /\ \A t \in DOMAIN tk :
          tk[t].pc = "done" =>
              /\ discovery_runs = 1
              /\ init_finished
              /\ tk[t].result = init_result
              /\ \A u \in DOMAIN tk : tk[u].pc = "done" => tk[u].result = tk[t].result

\* every caller is inside connect() at once: one has run discovery and is
\* about to publish the result, the others wait on init_event_
C2_Witness ==
    \E t \in DOMAIN tk :
        /\ tk[t].pc = "cn_finish"
        /\ \A u \in DOMAIN tk \ {t} : tk[u].pc = "cn_wait"

(***************************************************************************)
(* Properties of the redirection loop.                                     *)
(***************************************************************************)
TooManyRedirections == ProtoErr(PlainMsg("too many redirections"))

\* the attempts this command() call has begun
Attempts(r) == r.attempt + 1

\* C4: while every reply to the command was a MOVED reply to a pooled
\* attempt the command has been sent at most max_redirections times; a
\* command() call all of whose attempts were answered MOVED returns Protocol
\* "too many redirections" after exactly max_redirections sends.
C4_RedirectionBudget ==
    \A t \in DOMAIN tk :
        /\ tk[t].moved = tk[t].sent => tk[t].sent <= MaxRedirections
        /\ (tk[t].pc = "done" /\ ~IsError(tk[t].init)
                /\ tk[t].moved = Attempts(tk[t])) =>
               /\ tk[t].result = TooManyRedirections
               /\ tk[t].sent = MaxRedirections

C4_Witness ==
    \E t \in DOMAIN tk :
        /\ tk[t].pc = "done"
        /\ tk[t].moved = MaxRedirections
        /\ tk[t].sent = MaxRedirections
        /\ tk[t].result = TooManyRedirections

\* the positions of command() between the end of apply_moved and the next
\* reply: the retry is being routed, its client acquired, the command sent
RetryPcs == {"lookup", "acq_try", "acq_load", "acq_cas", "acq_conn",
             "acq_winc", "acq_sem", "acq_wdec", "send"}
RoutedPcs == RetryPcs \ {"lookup"}

\* task t retries after a MOVED reply that names a slot in range
RetriesAfterMoved(t) ==
    /\ tk[t].pc \in RetryPcs
    /\ tk[t].redir.type = "Moved"
    /\ 0 <= tk[t].redir.slot /\ tk[t].redir.slot < NumSlots

\* C5 (as the claim states it): when a command is retried after MOVED s h:p,
\* slot_to_node_[s] is the index of the Node of h:p.
C5_AlwaysRemapped ==
    \A t \in DOMAIN tk :
        RetriesAfterMoved(t) =>
            slot_to_node[tk[t].redir.slot] = FindNode(nodes, tk[t].redir.ep)

\* What the code does guarantee after MOVED s h:p with s in range: a Node
\* of h:p exists; if apply_moved got a connected main client for h:p and no
\* other command has written the entry since, slot_to_node_[s] is that
\* Node's index and the retry of a key of slot s is routed to it; a command
\* answered MOVED once and then with a value returns that value after two
\* sends.
C5_MovedRetry ==
    \A t \in DOMAIN tk :
        /\ RetriesAfterMoved(t) =>
              /\ FindNode(nodes, tk[t].redir.ep) >= 0
              /\ tk[t].applied =>
                    /\ slot_to_node[tk[t].redir.slot] = FindNode(nodes, tk[t].redir.ep)
                    /\ (tk[t].pc \in RoutedPcs /\ KeySlots[tk[t].args[1]] = tk[t].redir.slot)
                          => tk[t].node = FindNode(nodes, tk[t].redir.ep)
        /\ (tk[t].pc = "done" /\ tk[t].via = "pool" /\ tk[t].moved = 1
                /\ Attempts(tk[t]) = 2 /\ tk[t].resp.cat = "Value") =>
               (tk[t].result = tk[t].resp /\ tk[t].sent = 2)

\* a retry routed to the Node named by the MOVED reply, and on it the value
C5_Witness ==
    \E t \in DOMAIN tk :
        /\ tk[t].pc = "rel" /\ tk[t].applied /\ tk[t].moved = 1 /\ tk[t].sent = 2
        /\ tk[t].resp.cat = "Value"
        /\ tk[t].redir.ep = "A"
        /\ tk[t].node = FindNode(nodes, "A")
        /\ slot_to_node[FooSlot] = FindNode(nodes, "A")

AskPcs == {"ask_find", "ask_main", "ask_conn", "ask_asking", "ask_retry"}

\* C6 (as the claim states it): a command() call that returns the reply of
\* an ASK retry leaves slot_to_node_ as it was when the call began routing.
C6_TableAsBefore ==
    \A t \in DOMAIN tk :
        (tk[t].pc = "done" /\ tk[t].via = "ask" /\ ~IsMoved(tk[t].resp)) =>
            slot_to_node[FooSlot] = tk[t].tbl0

\* C6: a command() call whose ASK retry returned something other than MOVED
\* returns exactly that reply, and no step of the ASK handling writes
\* slot_to_node_.
C6_AskRetry ==
    /\ [](\A t \in DOMAIN tk :
            (tk[t].pc = "done" /\ tk[t].via = "ask" /\ ~IsMoved(tk[t].resp)) =>
                tk[t].result = tk[t].resp)
    /\ [][\A t \in DOMAIN tk :
            (tk[t].pc \in AskPcs /\ tk'[t] # tk[t]) => slot_to_node' = slot_to_node]_vars

C6_Witness ==
    \E t \in DOMAIN tk :
        /\ tk[t].pc = "done" /\ tk[t].via = "ask"
        /\ tk[t].resp = Val("bar") /\ tk[t].result = Val("bar")
        /\ tk[t].sent = 2
        /\ slot_to_node[FooSlot] = tk[t].tbl0

(***************************************************************************)
(* Properties of the sentinel pool.                                        *)
(***************************************************************************)
\* a command() call whose first forward failed with Io and whose
\* re-resolution succeeded (its pool reference is set again after the drop)
RetriedCall(t) ==
    /\ st[t].op = "command"
    /\ st[t].resp.cat = "Io"
    /\ st[t].dropped >= 1
    /\ st[t].pool # 0

\* C7: a command() call whose first forward fails with Io drops the pool
\* under the mutex; if the re-resolution succeeds the call has dropped the
\* pool once, resolved the master once after the failure, forwarded the
\* command twice in all, and returns what the second forward returned.
C7_RetryOnce ==
    \A t \in Tasks :
        /\ st[t].pc = "s_reensure" =>
              (sp.mutex = t /\ sp.pool = 0 /\ ~sp.connected /\ st[t].dropped = 1)
        /\ (st[t].pc = "s_fwd2" /\ RetriedCall(t)) =>
              (st[t].dropped = 1 /\ st[t].reresolved = 1 /\ st[t].forwards = 1)
        /\ (st[t].pc = "done" /\ RetriedCall(t)) =>
              /\ st[t].dropped = 1
              /\ st[t].reresolved = 1
              /\ st[t].forwards = 2
              /\ st[t].result = st[t].resp2

\* the second forward failed too, with a Protocol error, and that error is
\* what the call returned
C7_Witness ==
    \E t \in Tasks :
        /\ st[t].pc = "done" /\ RetriedCall(t)
        /\ st[t].resp2.cat = "Protocol"
        /\ st[t].result = st[t].resp2
        /\ st[t].forwards = 2

FailedNotReturned ==
    \E t \in Tasks :
        /\ cli.op_mutex = t
        /\ ck[t].pc = "m_ret"
        /\ ck[t].result.cat = "Io"

C9_ClosingNotConnected ==
    /\ [](cli.closing => ~cli.connected)
    /\ [][(~cli.connected /\ cli'.connected) =>
            \E t \in Tasks : ck[t].op = "connect" /\ ck[t].pc = "c_conn"]_vars

\* a client that was hard-closed and is connected again, on its second
\* connection
C9_Witness ==
    cli.conn = 2 /\ cli.connected /\ ~cli.closing

\* the positions in which a task holds op_mutex_
LockedPcs == {"c_conn", "c_auth", "c_select", "m_write", "m_write2", "m_read", "m_ret"}

\* at most one connect() or command() is past op_mutex_.lock(), and the
\* bytes of two commands were never mixed on the socket
OneOperationAtATime ==
    /\ Cardinality({t \in Tasks : ck[t].pc \in LockedPcs}) <= 1
    /\ ~cli.mixed

\* C10 (as the claim states it): one operation at a time, and the frame a
\* command() returns is the reply to that command: the k-th reply of the
\* connection for the k-th command written on it.
C10_SerializedInOrder ==
    /\ OneOperationAtATime
    /\ \A t \in Tasks : ck[t].got # NoFrame => ck[t].got = ck[t].mine

\* a connect() that has returned after the store answered AUTH or SELECT with
\* a frame of this kind
AnsweredWith(t, kinds) ==
    /\ ck[t].op = "connect" /\ ck[t].pc = "idle"
    /\ (ck[t].auth \in kinds \/ ck[t].select \in kinds)

\* a command() whose socket write or read has returned <= 0 and which has
\* not returned yet
IoFailed(t) == ck[t].pc = "m_ret" /\ ck[t].io_failed

\* the client after a hard close
Closed(c) == c.closing /\ ~c.connected

\* C11: a command() whose socket write or read returned <= 0 returns Io and
\* leaves the socket shut down, closing_ set and connected_ clear; a closed
\* client stays closed until a connect() takes it, and a command() that
\* comes to run on it returns Io in one step that touches neither the socket
\* nor any other part of the client.
C11_IoFaultTerminal ==
    /\ [](\A t \in Tasks :
            /\ IoFailed(t) =>
                  (ck[t].result.cat = "Io" /\ Closed(cli) /\ cli.socket = "shut")
            /\ AnsweredWith(t, {"io"}) =>
                  /\ ck[t].result.cat = "Io"
                  /\ ~ck[t].ended.connected /\ ck[t].ended.closing
                  /\ ck[t].ended.socket = "shut")
    /\ [][\A t \in Tasks :
            (Closed(cli) /\ ck'[t] # ck[t]) =>
                \/ ck[t].pc \in {"idle", "m_ret", "c_lock"}
                \/ /\ ck[t].pc = "m_lock" /\ ck'[t].pc = "idle"
                   /\ ck'[t].result.cat = "Io"
                   /\ cli' = cli]_vars
    /\ [][(Closed(cli) /\ Flags(cli') # Flags(cli)) =>
            \E t \in Tasks : ck[t].pc = "c_lock" /\ ck'[t].pc = "c_conn"]_vars

\* one command() failed in a read after it had written, and a later
\* command() of the other task was turned away
C11_Witness ==
    \E t, u \in Tasks :
        /\ t # u
        /\ ck[t].op = "command" /\ ck[t].pc = "idle"
        /\ ck[t].result = IoErr(PlainMsg("connection closed"))
        /\ ck[t].mine # NoFrame
        /\ ck[u].op = "command" /\ ck[u].pc = "idle" /\ ck[u].calls = 2
        /\ ck[u].result = IoErr(PlainMsg("RedisClient not connected"))
        /\ Closed(cli) /\ cli.socket = "shut"

\* C12 (as the claim states it): connect() fails and leaves the client not
\* connected whenever the reply to AUTH or to SELECT is not a SimpleString.
C12_AuthSelectFatal ==
    \A t \in Tasks :
        AnsweredWith(t, ExchangeOutcomes \ {"SimpleString"}) =>
            /\ IsError(ck[t].result)
            /\ ~ck[t].ended.connected /\ ck[t].ended.closing
            /\ ck[t].ended.socket = "shut"

\* what the code does: an Error frame or a failed write or read is fatal
C12_ErrorReplyFatal ==
    \A t \in Tasks :
        AnsweredWith(t, {"Error", "io"}) =>
            /\ IsError(ck[t].result)
            /\ ~ck[t].ended.connected /\ ck[t].ended.closing
            /\ ck[t].ended.socket = "shut"

(***************************************************************************)
(* Properties of command() on a reply that is no redirection.              *)
(***************************************************************************)
\* task t holds the reply of its pooled client and that reply is an error
\* of a category other than ServerReply
FaultyReply(t) == tk[t].via = "pool" /\ ConnectionFaulty(tk[t].resp)

\* the idle queues of all nodes
IdleQueues(ns) == [i \in 1..Len(ns) |-> ns[i].idle]

\* C13: when the pooled client's command fails with an error that is no
\* ServerReply, release_pooled_client does not enqueue the client, live_count
\* of its node goes down by one and the client is dropped, and command()
\* returns that error without another send; no hard-closed client is in an
\* idle queue or handed to a task for sending.
C13_FaultyDiscarded ==
    /\ [](\A i \in 1..Len(nodes) : \A k \in 1..Len(nodes[i].idle) :
              nodes[i].idle[k] = "up")
    /\ [](\A t \in DOMAIN tk : tk[t].pc = "send" => tk[t].client = "up")
    /\ [][\A t \in DOMAIN tk :
            (FaultyReply(t) /\ tk'[t].pc # tk[t].pc) =>
               CASE tk[t].pc = "rel" ->
                       /\ tk'[t].pc = "dec" /\ tk'[t].ret = "after_rel"
                       /\ nodes' = nodes
                 [] tk[t].pc = "dec" /\ tk[t].ret = "after_rel" ->
                       /\ tk'[t].pc = "notify" /\ tk'[t].client = NoClient
                       /\ nodes'[tk[t].node + 1].live = NodeAt(tk[t].node).live - 1
                       /\ IdleQueues(nodes') = IdleQueues(nodes)
                 [] tk[t].pc = "notify" /\ tk[t].ret = "after_rel" ->
                       /\ tk'[t].pc = "done" /\ tk'[t].result = tk[t].resp
                       /\ tk'[t].sent = tk[t].sent
                       /\ IdleQueues(nodes') = IdleQueues(nodes)
                       /\ slot_to_node' = slot_to_node
                 [] OTHER -> TRUE]_vars

\* a command that was redirected once and whose second attempt failed with
\* an Io error has returned that error; the pool of the node it was sent to
\* is left without a client
C13_Witness ==
    \E t \in DOMAIN tk :
        /\ tk[t].pc = "done" /\ tk[t].via = "pool"
        /\ tk[t].result = IoErr(PlainMsg("connection closed"))
        /\ tk[t].moved = 1 /\ tk[t].sent = 2
        /\ \E i \in 1..Len(nodes) : nodes[i].live = 0 /\ nodes[i].idle = << >>

\* task t holds the reply of its pooled client and that reply is a
\* ServerReply error in which parse_redirection finds no redirection
PlainErrorReply(t) ==
    /\ tk[t].via = "pool" /\ IsError(tk[t].resp)
    /\ tk[t].resp.cat = "ServerReply"
    /\ parse_redirection(tk[t].resp.msg).type = "None"

\* the endpoints and main clients of all nodes
NodeList(ns) == [i \in 1..Len(ns) |-> [ep |-> ns[i].ep, main |-> ns[i].main]]

\* C14: when the pooled client's reply is a ServerReply error that is no
\* MOVED or ASK redirection, release_pooled_client puts the client at the
\* end of its node's idle queue with live_count as it was, and command()
\* returns that error without another send and without a change of
\* slot_to_node_ or of the list of nodes.
C14_PlainErrorReturned ==
    /\ [](\A t \in DOMAIN tk :
            (tk[t].pc = "done" /\ PlainErrorReply(t)) =>
                (tk[t].result = tk[t].resp /\ tk[t].sent = 1))
    /\ [][\A t \in DOMAIN tk :
            (PlainErrorReply(t) /\ tk'[t].pc # tk[t].pc) =>
               CASE tk[t].pc = "rel" ->
                       /\ tk'[t].pc = "rel_sem" /\ tk'[t].client = NoClient
                       /\ nodes'[tk[t].node + 1].idle =
                              Append(NodeAt(tk[t].node).idle, tk[t].client)
                       /\ tk[t].client = "up"
                       /\ nodes'[tk[t].node + 1].live = NodeAt(tk[t].node).live
                       /\ NodeList(nodes') = NodeList(nodes)
                       /\ slot_to_node' = slot_to_node
                 [] tk[t].pc = "rel_sem" ->
                       /\ tk'[t].pc = "done" /\ tk'[t].result = tk[t].resp
                       /\ tk'[t].sent = tk[t].sent
                       /\ IdleQueues(nodes') = IdleQueues(nodes)
                       /\ nodes'[tk[t].node + 1].live = NodeAt(tk[t].node).live
                       /\ NodeList(nodes') = NodeList(nodes)
                       /\ slot_to_node' = slot_to_node
                 [] OTHER -> FALSE]_vars

\* a command answered "MOVED 12182" (no host:port) has returned that error;
\* every client of the pools is idle again and the slot table is the one
\* discovery built
C14_Witness ==
    \E t \in DOMAIN tk :
        /\ tk[t].pc = "done" /\ tk[t].result = ServerErr(TruncatedMoved)
        /\ tk[t].sent = 1
        /\ \A i \in 1..Len(nodes) :
              nodes[i].live = Len(nodes[i].idle) /\ nodes[i].live = MaxConnectionsPerNode
        /\ slot_to_node[FooSlot] = 1

(***************************************************************************)
(* Properties of initial_discovery.                                        *)
(***************************************************************************)
\* connect() calls that have returned
Returned == {t \in DOMAIN tk : tk[t].op = "connect" /\ tk[t].pc = "done"}

\* C15: once a seed has answered CLUSTER SLOTS with "cluster support
\* disabled", every slot maps to node 0 and every node's pool holds only
\* connected idle clients, live_count = |idle| <= max_connections_per_node;
\* discovery then ends with success and every connect() returns success.
C15_StandaloneFallback ==
    standalone_mode =>
        /\ nodes # << >>
        /\ \A s \in Slots : slot_to_node[s] = 0
        /\ \A i \in 1..Len(nodes) :
              /\ nodes[i].live = Len(nodes[i].idle)
              /\ nodes[i].live <= MaxConnectionsPerNode
              /\ \A k \in 1..Len(nodes[i].idle) : nodes[i].idle[k] = "up"
        /\ init_finished => init_result = Ok
        /\ \A t \in Returned : tk[t].result = Ok

\* the first seed refused the connection and the second answered "cluster
\* support disabled"; the second node's pool was filled, the first one's
\* could not be, and two callers have returned
C15_Witness ==
    /\ standalone_mode /\ init_finished
    /\ Len(nodes) = 2
    /\ nodes[1].main = "none" /\ nodes[1].live = 0
    /\ nodes[2].live = MaxConnectionsPerNode
    /\ Cardinality(Returned) >= 2

DiscPcs == {"ds_find", "ds_conn", "ds_slots"}

AllSeedsFailed == IoErr(PlainMsg("CLUSTER SLOTS failed on all seeds"))

\* the seeds before the k-th have been tried, in order, and none has
\* ended discovery: their nodes head the node list and no slot is mapped
TriedBefore(k) ==
    /\ Len(nodes) >= k - 1
    /\ \A i \in 1..(k - 1) : nodes[i].ep = Seeds[i]
    /\ \A s \in Slots : slot_to_node[s] = -1
    /\ ~standalone_mode

Sends(t) == tk'[t].sent = tk[t].sent + 1

\* C16 (as the claim states it): in standalone mode no step changes
\* slot_to_node_, and a command is sent only on a pooled client of node 0.
C16_RedirectionsInert ==
    [][standalone_mode =>
         /\ slot_to_node' = slot_to_node
         /\ \A t \in DOMAIN tk :
               Sends(t) => (tk[t].pc = "send" /\ tk[t].node = 0)]_vars

\* the store never answers a command with a reply that parse_redirection
\* takes for a redirection
NoRedirections ==
    \A r \in env.replies : IsError(r) => parse_redirection(r.msg).type = "None"

\* what the code does guarantee: in standalone mode, as long as the store
\* sends nothing of MOVED or ASK shape, every slot maps to node 0 and every
\* command is routed to node 0
C16_QuietStandalone ==
    (standalone_mode /\ NoRedirections) =>
        /\ \A s \in Slots : slot_to_node[s] = 0
        /\ \A t \in DOMAIN tk : tk[t].node \in {-1, 0}

\* C18 (as the claim states it): when no seed answers CLUSTER SLOTS with an
\* Array and CLUSTER SLOTS has been sent to every seed that was tried (it
\* reported "cluster support disabled", or the command failed), discovery
\* ends with success in single-node mode: standalone_mode is set and every
\* slot maps to node 0, the first seed.
C18_SingleNodeFallback ==
    (/\ env.topos = {} /\ init_finished
     /\ \A i \in 1..Len(nodes) : nodes[i].main # "none") =>
        /\ init_result = Ok
        /\ standalone_mode
        /\ nodes # << >> /\ nodes[1].ep = Seeds[1]
        /\ \A s \in Slots : slot_to_node[s] = 0

\* C19: initial_discovery runs at most once; once connect() has stored its
\* result, the result never changes and no step of discovery (hence no
\* CLUSTER SLOTS) is taken again; every call that has passed its connect()
\* has observed the stored result, and when that is an error the call has
\* returned it without sending anything.
C19_ResultCached ==
    /\ [](discovery_runs <= 1)
    /\ [](\A t \in DOMAIN tk :
            /\ tk[t].init # NoResp => (init_finished /\ tk[t].init = init_result)
            /\ (tk[t].pc = "done" /\ IsError(tk[t].init)) =>
                  (tk[t].result = init_result /\ tk[t].sent = 0))
    /\ [][init_finished =>
            /\ init_finished' /\ init_result' = init_result
            /\ discovery_runs' = discovery_runs
            /\ \A t \in DOMAIN tk : tk'[t].pc \notin DiscPcs \cup {"ds_prewarm"}]_vars

\* discovery has failed on all seeds; connect() and a command() have both
\* returned the stored error after the one run of discovery
C19_Witness ==
    /\ discovery_runs = 1 /\ init_result = AllSeedsFailed
    /\ \E t, u \in DOMAIN tk :
          /\ tk[t].op = "connect" /\ tk[t].pc = "done"
          /\ tk[t].result = AllSeedsFailed
          /\ tk[u].op = "command" /\ tk[u].pc = "done"
          /\ tk[u].result = AllSeedsFailed

(***************************************************************************)
(* Properties of the routing of a command.                                 *)
(***************************************************************************)
\* the slot of a first argument; the empty string hashes to slot 0
RoutingSlot(key) == IF key = KeyEmpty THEN calc_slot(KeyEmpty) ELSE KeySlots[key]

\* task t has found the node of its next attempt
Routed(t) == tk[t].pc = "lookup" /\ tk'[t].pc = "acq_try"

\* between the lookup and the end of the attempt the node stays the same
KeepsNode(t) ==
    (tk[t].pc # "lookup" /\ tk'[t].pc # "done") => tk'[t].node = tk[t].node

\* C20 (as the claim states it): an attempt of a command with args is
\* routed to the node slot_to_node_[slot(args[0])] of the moment of the
\* lookup, the empty first argument included; a command without args is
\* routed to the first node; the attempt is sent on a client of that node.
C20_RoutedBySlot ==
    [][\A t \in DOMAIN tk :
         /\ Routed(t) =>
               tk'[t].node = IF tk[t].args = << >> THEN 0
                             ELSE slot_to_node[RoutingSlot(tk[t].args[1])]
         /\ KeepsNode(t)]_vars

\* what the code does: the same for a non-empty first argument; an empty
\* first argument is routed like a command without args, to the first node
C20_RoutedByKey ==
    [][\A t \in DOMAIN tk :
         /\ Routed(t) =>
               tk'[t].node = IF tk[t].args = << >> \/ tk[t].args[1] = KeyEmpty
                             THEN 0
                             ELSE slot_to_node[RoutingSlot(tk[t].args[1])]
         /\ KeepsNode(t)]_vars


(***************************************************************************)
(* Properties of the slot function.                                        *)
(***************************************************************************)
\* CRC-16 with polynomial 0x1021, initial value 0, most significant bit
\* first, no reflection and no final XOR, one message bit at a time
\* one message bit b enters the register
BitStep(crc, b) ==
    IF ((crc \div CrcTopBit) + b) % 2 = 1
    THEN BitXor((crc * 2) % CrcWidth, CrcPoly)
    ELSE (crc * 2) % CrcWidth
\* the bit of weight w of a byte
BitOf(byte, w) == (byte \div w) % 2
\* the seven low bits of a byte enter the register, bit 6 first
LowBits(crc, byte) ==
    BitStep(BitStep(BitStep(BitStep(BitStep(BitStep(BitStep(crc,
        BitOf(byte, 64)), BitOf(byte, 32)), BitOf(byte, 16)),
        BitOf(byte, 8)), BitOf(byte, 4)), BitOf(byte, 2)), BitOf(byte, 1))
\* the bytes of the message enter the register in order, each with its most
\* significant bit first
RECURSIVE BitSerialCrc(_, _)
BitSerialCrc(crc, key) ==
    IF key = << >> THEN crc
    ELSE IF ((crc \div CrcTopBit) + BitOf(Head(key), 128)) % 2 = 1
         THEN BitSerialCrc(LowBits(BitXor((crc * 2) % CrcWidth, CrcPoly),
                                   Head(key)), Tail(key))
         ELSE BitSerialCrc(LowBits((crc * 2) % CrcWidth, Head(key)), Tail(key))
RefSlot(key) == BitSerialCrc(0, key) % NumSlots

\* positions of the first '{' and of the first '}' after it
Opens(key) == {i \in 1..Len(key) : key[i] = LBrace}
FirstOpen(key) == CHOOSE i \in Opens(key) : \A j \in Opens(key) : i <= j
ClosesAfter(key, l) == {j \in l + 1..Len(key) : key[j] = RBrace}
NextClose(key, l) ==
    CHOOSE j \in ClosesAfter(key, l) : \A k \in ClosesAfter(key, l) : j <= k
\* the key has a hash tag: a first '{', a '}' after it, and the first such
\* '}' is not the byte right after the '{'
HasTag(key) ==
    /\ Opens(key) # {}
    /\ ClosesAfter(key, FirstOpen(key)) # {}
    /\ NextClose(key, FirstOpen(key)) > FirstOpen(key) + 1
HashTag(key) ==
    SubSeq(key, FirstOpen(key) + 1, NextClose(key, FirstOpen(key)) - 1)
\* some '{' is followed later by some '}' with at least one byte between
BracePairs(key) ==
    {p \in (1..Len(key)) \X (1..Len(key)) :
        key[p[1]] = LBrace /\ key[p[2]] = RBrace /\ p[2] > p[1] + 1}

SlotDone == hs.pc = "done"

\* C21: the slot of a key lies in 0..16383 and is the CRC-16 (0x1021, init 0,
\* MSB first, no reflection, no final XOR) modulo 16384 of the hash tag when
\* the first '{' has a '}' after it and the first such '}' is not adjacent,
\* and of the whole key otherwise; "" gives 0, "foo" 12182, "{tag}key" the
\* slot of "tag", and "a{}b" is hashed whole
C21_SlotOfKey ==
    SlotDone =>
        /\ hs.slot \in 0..(NumSlots - 1)
        /\ hs.slot = RefSlot(IF HasTag(hs.key) THEN HashTag(hs.key) ELSE hs.key)
        /\ hs.key = KeyEmpty => hs.slot = 0
        /\ hs.key = KeyFoo => hs.slot = 12182
        /\ hs.key = KeyTagged => hs.slot = RefSlot(KeyTag)
        /\ hs.key = KeyEmptyTag => hs.slot = RefSlot(KeyEmptyTag)
C21_Witness ==
    /\ SlotDone
    /\ hs.key = KeyTagged
    /\ hs.slot = RefSlot(KeyTag)
    /\ hs.slot # RefSlot(KeyTagged)
\* C21 as stated: whenever some '{' is followed later by a '}' with at least
\* one byte between them, the slot is that of the bytes between such a pair
C21_AnyBracePair ==
    SlotDone /\ BracePairs(hs.key) # {} =>
        \E p \in BracePairs(hs.key) :
            hs.slot = RefSlot(SubSeq(hs.key, p[1] + 1, p[2] - 1))


(***************************************************************************)
(* Properties of the sentinel pool's command().                            *)
(***************************************************************************)
\* the first forward of task t has just been answered with an error that is
\* not an Io error
NonIoFailure(t) ==
    /\ st[t].pc = "s_fwd" /\ st'[t].pc # "s_fwd"
    /\ IsError(st'[t].resp) /\ st'[t].resp.cat # "Io"

\* C22: when the forwarded command fails with an error that is not Io
\* (Protocol or ServerReply), command() returns that error unchanged after
\* one forward, without dropping the pool or resolving the master again, and
\* the step leaves pool_, connected_ and the mutex as they were.
C22_NonIoReturned ==
    [][\A t \in Tasks :
          NonIoFailure(t) =>
              /\ st'[t].pc = "done"
              /\ st'[t].result = st'[t].resp
              /\ st'[t].forwards = 1
              /\ st'[t].dropped = 0 /\ st'[t].reresolved = 0
              /\ sp' = sp]_vars
\* a call returned the ServerReply error of its only forward and the pool it
\* used is still the sentinel pool's
C22_Witness ==
    \E t \in Tasks :
        /\ st[t].pc = "done" /\ st[t].op = "command"
        /\ st[t].resp = ServerErr(OtherErrMsg)
        /\ st[t].result = st[t].resp
        /\ st[t].forwards = 1 /\ st[t].dropped = 0
        /\ sp.connected /\ sp.pool = st[t].pool /\ sp.pool # 0

\* the re-resolution that followed the Io failure of task t has just failed
ReensureFailed(t) == st[t].pc = "s_reensure" /\ st'[t].pc = "done"

\* C23: when the forward fails with Io and the re-resolution (sentinel query
\* or pool connect) fails, command() returns the Io error of the forward, the
\* command has been sent once, and the sentinel pool is left without a pool,
\* not connected and unlocked, so that the next connect() or command() that
\* takes the mutex resolves the master again.
C23_OriginalIoError ==
    [][\A t \in Tasks :
          /\ ReensureFailed(t) =>
                /\ st[t].resp.cat = "Io"
                /\ st'[t].result = st[t].resp
                /\ st'[t].forwards = 1 /\ st'[t].resp2 = NoResp
                /\ ~sp'.connected /\ sp'.pool = 0 /\ sp'.mutex = 0
          /\ (st[t].pc = "s_lock" /\ st'[t].pc # "s_lock" /\ ~IsConnected(sp)) =>
                (st'[t].pc = "s_ensure" /\ sp'.mutex = t)]_vars
\* a call returned its forward's Io error after a failed re-resolution
C23_Witness ==
    \E t \in Tasks :
        /\ st[t].pc = "done" /\ st[t].op = "command"
        /\ st[t].resp = IoErr(PlainMsg("connection closed"))
        /\ st[t].result = st[t].resp
        /\ st[t].dropped = 1 /\ st[t].reresolved = 1 /\ st[t].forwards = 1
        /\ ~sp.connected /\ sp.pool = 0


(***************************************************************************)
(* Properties of resolve_master_from_sentinel.                             *)
(***************************************************************************)
\* the number of decimal digits a string starts with
LeadingDigits(str) ==
    Cardinality({n \in 1..Len(str) : \A j \in 1..n : str[j] \in Digits})
\* a decimal number in 1..65535
IsPort(str) ==
    /\ Len(str) >= 1
    /\ LeadingDigits(str) = Len(str)
    /\ DecimalOf(str, Len(str)) \in 1..65535
\* an Array of two strings [host, port] whose port is a decimal number in
\* 1..65535
ValidReply(v) ==
    /\ v.type = "Array" /\ Len(v.items) = 2
    /\ is_string(v.items[1]) /\ is_string(v.items[2])
    /\ IsPort(v.items[2].str)
\* what the code accepts: an Array of at least two items whose first two are
\* strings, the second starting with digits whose value is at most 65535
AcceptedReply(v) ==
    /\ v.type = "Array" /\ Len(v.items) >= 2
    /\ is_string(v.items[1]) /\ is_string(v.items[2])
    /\ LeadingDigits(v.items[2].str) >= 1
    /\ DecimalOf(v.items[2].str, LeadingDigits(v.items[2].str)) <= 65535
\* the sentinels of the list that connect and answer with such a reply
Answering(Good(_)) ==
    {j \in 1..Len(rs.sentinels) :
        /\ rs.sentinels[j].connect
        /\ ~IsError(rs.sentinels[j].resp)
        /\ Good(rs.sentinels[j].resp.msg)}
First(S) == CHOOSE j \in S : \A k \in S : j <= k
\* the call returned the address sentinel j gave, in the template
ReturnedFrom(j) ==
    LET reply == rs.sentinels[j].resp.msg
    IN  /\ rs.result.cat = "Value"
        /\ rs.result.msg.host = reply.items[1].str
        /\ rs.result.msg.port =
              DecimalOf(reply.items[2].str, LeadingDigits(reply.items[2].str))
        /\ [rs.result.msg EXCEPT !.host = rs.base.host, !.port = rs.base.port]
              = rs.base
        /\ rs.contacted = [k \in 1..j |-> k]
Resolved == rs.pc = "done" /\ rs.result.cat = "Value"

\* C24: a sentinel's reply is accepted only if it is an Array of two strings
\* [host, port] whose port is a decimal number in 1..65535.
C24_OnlyValidAccepted ==
    Resolved => ValidReply(rs.sentinels[rs.i].resp.msg)

\* what the code does about C24: the reply it accepts has at least two items,
\* the first two are strings and the second starts with digits whose value is
\* at most 65535 (0 included); every sentinel before it refused the
\* connection, failed, or gave a reply that is not of that form.
C24_LeadingDigitsAccepted ==
    Resolved =>
        /\ AcceptedReply(rs.sentinels[rs.i].resp.msg)
        /\ \A j \in 1..(rs.i - 1) : j \notin Answering(AcceptedReply)

\* C25: the sentinels are queried in list order and the call returns the
\* address given by the first that connects and answers with a valid reply,
\* in the template, without contacting a later one; when none does the call
\* returns an Io error.
C25_FirstValid ==
    rs.pc = "done" =>
        IF Answering(ValidReply) = {}
        THEN rs.result.cat = "Io"
        ELSE ReturnedFrom(First(Answering(ValidReply)))

\* what the code does about C25: the same, for the replies the code accepts
C25_FirstAccepted ==
    rs.pc = "done" =>
        IF Answering(AcceptedReply) = {}
        THEN rs.result.cat = "Io" /\ rs.contacted = [k \in 1..Len(rs.sentinels) |-> k]
        ELSE ReturnedFrom(First(Answering(AcceptedReply)))


(***************************************************************************)
(* Properties of the ASK path and of the pooled clients.                   *)
(***************************************************************************)
\* task t writes the redirected command on the target's main client
AskRetryWritten(t) ==
    /\ tk[t].pc = "ask_retry" /\ tk'[t].pc # "ask_retry"
    /\ tk'[t].sent = tk[t].sent + 1

\* C26: when a task writes the redirected command of its ASK path on the
\* target's main client, the last command written on that connection is the
\* task's own ASKING: no other command was written in between.
C26_AskingThenCommand ==
    [][\A t \in DOMAIN tk :
          AskRetryWritten(t) =>
              nodes[FindNode(nodes, tk[t].redir.ep) + 1].asked = t]_vars


\* the RedisClient objects in the idle queue of node i (1-based), and the
\* tasks that hold object c of that node
IdleClients(i) == {nodes[i].ids[j] : j \in 1..Len(nodes[i].ids)}
Holders(i, c) == {t \in DOMAIN tk : tk[t].node = i - 1 /\ tk[t].cid = c}

\* C27: a pooled client is in the idle queue once, or held by exactly one
\* caller, or discarded: no client is queued twice, held by two callers, or
\* queued while a caller holds it; a caller holds a client exactly where the
\* code has one in its PooledClient.
C27_OneOwner ==
    /\ \A i \in 1..Len(nodes) :
          /\ Len(nodes[i].ids) = Len(nodes[i].idle)
          /\ Cardinality(IdleClients(i)) = Len(nodes[i].ids)
          /\ \A c \in IdleClients(i) : Holders(i, c) = {}
          /\ \A t \in DOMAIN tk :
                (tk[t].node = i - 1 /\ tk[t].cid # 0) => Holders(i, tk[t].cid) = {t}
    /\ \A t \in DOMAIN tk : (tk[t].cid # 0) <=> (tk[t].client # NoClient)
\* a call returned a value and released its client, and another caller now
\* holds the only client of that node, taken from the idle queue
C27_Witness ==
    \E t, u \in DOMAIN tk :
        /\ t # u
        /\ tk[t].pc = "done" /\ tk[t].result = Val("bar") /\ tk[t].sent = 1
        /\ tk[u].pc = "send" /\ tk[u].cid # 0 /\ tk[u].sent = 0
        /\ NodeAt(tk[u].node).idle = << >>
        /\ NodeAt(tk[u].node).live = 1


\* the calls of release_pooled_client on node i (1-based) that have not
\* returned yet
Releasing(i) ==
    Cardinality({t \in DOMAIN tk :
                    /\ tk[t].node = i - 1
                    /\ tk[t].pc \in {"rel", "rel_sem", "dec", "notify"}})

\* C28: for every node the count of idle_sem is at most the number of
\* clients in the idle queue plus the number of releases in progress.
C28_SemBounded ==
    \A i \in 1..Len(nodes) :
        nodes[i].sem <= Len(nodes[i].idle) + Releasing(i)


\* where command() has a pooled client in its PooledClient: from the
\* compare-exchange or the dequeue of the acquire to the end of the release
HoldingPcs == {"acq_conn", "send", "rel", "dec"}

\* C29: in command() a pooled client is taken only by the acquire and given
\* up only by release_pooled_client (or by the acquire that discards it); a
\* release always has a client to release; and the call holds no client when
\* it starts the next attempt, handles a redirection, or has returned.
C29_Balanced ==
    /\ [](\A t \in DOMAIN tk :
            /\ tk[t].pc = "rel" => tk[t].cid # 0
            /\ tk[t].pc \notin HoldingPcs => tk[t].cid = 0)
    /\ [][\A t \in DOMAIN tk :
            /\ (tk[t].cid = 0 /\ tk'[t].cid # 0) =>
                  tk[t].pc \in {"acq_try", "acq_cas"}
            /\ (tk[t].cid # 0 /\ tk'[t].cid = 0) =>
                  tk[t].pc \in {"rel", "dec"}
            /\ (tk[t].pc = "send" /\ tk'[t].pc # "send") =>
                  (tk'[t].pc = "rel" /\ tk'[t].cid = tk[t].cid)
            /\ (tk[t].pc = "rel" /\ tk'[t].pc # "rel") =>
                  \/ tk'[t].pc = "rel_sem" /\ tk'[t].cid = 0
                  \/ tk'[t].pc = "dec" /\ tk'[t].ret = "after_rel"]_vars
\* a call answered MOVED and then with a value has returned: it acquired
\* and released twice and holds nothing
C29_Witness ==
    \E t \in DOMAIN tk :
        /\ tk[t].pc = "done" /\ tk[t].result = Val("bar")
        /\ tk[t].moved >= 1 /\ tk[t].sent >= 2 /\ tk[t].via = "pool"
        /\ tk[t].cid = 0 /\ tk[t].client = NoClient

\* the places where a call waits for a socket: a connect or a command in
\* flight on some node
IoPcs == {"ds_conn", "ds_slots", "ds_prewarm", "acq_conn", "send",
          "mv_conn", "ask_conn", "ask_asking", "ask_retry"}

MainReaders(ep) == {t \in DOMAIN tk : tk[t].pc \in {"mv_main", "ask_main"}
                                       /\ tk[t].redir.ep = ep}
MainWriters(ep) == {t \in DOMAIN tk : tk[t].pc \in {"mv_conn", "ask_conn"}
                                       /\ tk[t].redir.ep = ep}

\* C31: no call is about to read a node's main_client outside mutex_ while
\* another call is about to assign the same node's main_client (the test
\* after the first block of get_or_create_main_client_for_node takes no
\* guard, so nothing orders it with the assignment in the second block)
C31_MainClientGuarded ==
    \A ep \in Endpoints :
        \A t \in MainReaders(ep) : MainWriters(ep) \ {t} = {}

Cancelled == [cat |-> "Cancelled", msg |-> "none"]

\* the step in which task t's command() is cancelled
CancelledStep(t) ==
    /\ ck[t].pc \in {"m_write2", "m_read"}
    /\ ck'[t].pc = "idle" /\ ck'[t].result = Cancelled

\* C32: the cancellation of a command() that has written some or all of its
\* bytes and has not read its whole reply leaves the client hard-closed
\* (connected_ clear, closing_ set), and no command() that returns a frame
\* returns the reply owed to a cancelled one.
C32_CancelHardCloses ==
    [][\A t \in Tasks : CancelledStep(t) => Closed(cli')]_vars

\* what follows in the code: a later command() on the client returns the
\* reply that was owed to the cancelled command
C32_StaleReplyReturned ==
    \E t, u \in Tasks :
        /\ ck[t].result = Cancelled /\ ck[t].mine # NoFrame
        /\ ck[u].pc = "idle" /\ ck[u].op = "command"
        /\ ck[u].got = ck[t].mine

\* the reply to CLUSTER SLOTS of the environment
TheReply == CHOOSE topo \in env.topos : TRUE

\* a range entry the code does not skip: an array of at least three items
\* that starts with two integers and whose master has a usable address
WellFormed(r) == r.form = "ok" /\ r.master \in Endpoints

Largest(S) == CHOOSE x \in S : \A y \in S : y <= x
Smallest(S) == CHOOSE x \in S : \A y \in S : x <= y

\* the entries of the reply that cover slot s
Covering(topo, s) ==
    {i \in 1..Len(topo) :
        /\ WellFormed(topo[i])
        /\ Largest({topo[i].start, 0}) <= s
        /\ s <= Smallest({topo[i].end, NumSlots - 1})}

\* the owner of slot s according to the reply: the master of the last entry
\* that covers it
OwnerOf(topo, s) ==
    IF Covering(topo, s) = {} THEN -1
    ELSE FindNode(nodes, topo[Largest(Covering(topo, s))].master)

\* the addresses the reply lists as replicas of well-formed entries
ReplicasOf(topo) ==
    (UNION {{topo[i].replicas[j] : j \in DOMAIN topo[i].replicas} :
               i \in {k \in 1..Len(topo) : WellFormed(topo[k])}}) \cap Endpoints

Discovered == init_finished /\ init_result = Ok /\ ~standalone_mode

\* C33: after discovery from an Array reply every slot maps to the node of
\* the master of the last well-formed entry that covers it, clamped to the
\* table, and to -1 when no entry covers it; a replica gets a Node and owns
\* a slot only where it is also such a master; and the slots written for an
\* entry all lie in the table.
C33_TableFromReply ==
    /\ Discovered =>
          /\ \A s \in Slots : slot_to_node[s] = OwnerOf(TheReply, s)
          /\ \A ep \in ReplicasOf(TheReply) : FindNode(nodes, ep) >= 0
    /\ \A i \in 1..Len(TheReply) :
          LET c == ClampedRange(TheReply[i])
          IN  (WellFormed(TheReply[i]) /\ c.lo <= c.hi) =>
                 (0 <= c.lo /\ c.hi <= NumSlots - 1)

\* discovery has ended on a reply whose first entry reaches beyond both ends
\* of the table and whose second, for the upper half, names another master
\* and overrides it there
C33_Witness ==
    /\ Discovered
    /\ TheReply = << Range(-1, 20000, "A", << >>), Range(8192, 20000, "B", << >>) >>
    /\ slot_to_node[0] = FindNode(nodes, "A")
    /\ slot_to_node[FooSlot] = FindNode(nodes, "B")

\* a command() call for a key whose slot has no owner, at the head of an
\* attempt
AtUnmappedSlot(t) ==
    /\ tk[t].pc = "lookup"
    /\ tk[t].args # << >> /\ tk[t].args[1] # << >>
    /\ nodes # << >>
    /\ slot_to_node[KeySlots[tk[t].args[1]]] = -1

SlotMappingEmpty == ProtoErr(PlainMsg("slot mapping is empty"))

C35_EntriesValid ==
    \A s \in Slots :
        slot_to_node[s] = -1 \/ (0 <= slot_to_node[s] /\ slot_to_node[s] < Len(nodes))

\* discovery listed one node; a MOVED reply named another, which was appended
\* to nodes_ and now owns the slot of "foo"
C35_Witness ==
    /\ env.topos = {SingleMasterTopology}
    /\ Len(nodes) = 2 /\ nodes[2].ep = "B"
    /\ slot_to_node[FooSlot] = 1
    /\ slot_to_node[0] = 0

\* C36: no two nodes of nodes_ have the same endpoint, and a step only
\* appends to nodes_: the nodes it finds there stay at their indices.
C36_AppendOnly ==
    /\ [](\A i, j \in 1..Len(nodes) : nodes[i].ep = nodes[j].ep => i = j)
    /\ [][/\ Len(nodes') >= Len(nodes)
           /\ \A i \in 1..Len(nodes) : nodes'[i].ep = nodes[i].ep]_vars

\* both calls were answered MOVED to the node that discovery had not listed,
\* and nodes_ holds that node once, behind the node of discovery
C36_Witness ==
    /\ env.topos = {SingleMasterTopology}
    /\ \A t \in DOMAIN tk : tk[t].moved >= 1 /\ tk[t].redir.ep = "B"
                              /\ tk[t].pc \notin {"mv_find", "rel", "rel_sem"}
    /\ Len(nodes) = 2 /\ nodes[1].ep = "A" /\ nodes[2].ep = "B"

\* C37: the step that ends discovery on a seed's answer to CLUSTER SLOTS
\* leaves that seed's endpoint as the first node of nodes_.
C37_FirstNodeAnswered ==
    [][\A t \in DOMAIN tk :
          (tk[t].pc = "ds_slots" /\ tk'[t].pc = "ds_prewarm") =>
              nodes'[1].ep = Seeds[tk[t].seed]]_vars

\* the step in which task t, after an Io failure of its forward, takes
\* mutex_ and drops pool_
DropStep(t) == st[t].pc = "s_relock" /\ st'[t].pc = "s_reensure"

\* C38: the failure handling of a command drops only the pool on which the
\* command failed: the pool_ it resets is the pool it forwarded to, or null
\* already, and never a pool built after its failure.
C38_DropsOwnPool ==
    [][\A t \in Tasks : DropStep(t) => sp.pool \in {0, st[t].pool}]_vars

\* the connections the bytes of a frame were received on
ConnsOf(frame) == {frame[i].conn : i \in 1..Len(frame)}

\* C39: a frame that command() returns consists of bytes received on the
\* connection the command was written on, so that after a reconnect nothing
\* read on the old connection is returned (stated for a client that
\* exchanges neither AUTH nor SELECT when it connects, whose first read on
\* the new connection is the read of the command's reply).
C39_ReplyFromNewConnection ==
    \A t \in Tasks :
        (~cli.password /\ cli.db = 0 /\ ck[t].got # NoFrame) =>
            ConnsOf(ck[t].got) = ConnsOf(ck[t].mine)

=============================================================================
